---- MODULE Spec2Model ----
(***************************************************************************)
(* The tool-calling engine of the healthcare agent: chat_loop of chat.py   *)
(* (the conversation loop, the reconstruction of streamed tool calls, the  *)
(* dispatch of tool calls) and execute_function.                           *)
(*                                                                         *)
(* Text is modelled by TLC strings, joined with \o.  The text typed by the *)
(* user is a sequence of one-character strings, so that strip() and        *)
(* lower() are computed character by character.  Python's None is the      *)
(* value None below, which no content fragment equals.                     *)
(*                                                                         *)
(* Below the loop, the tool functions of tools/sqlite.py (query_db,        *)
(* get_db_schema, get_patient_data, compare_dates) on a store of database  *)
(* files, and execute_function of chat_browser.py.  Queries, table names   *)
(* and date strings are sequences of one-character strings as well.        *)
(***************************************************************************)
EXTENDS Integers, Sequences, FiniteSets, TLC

VARIABLES
    pc,                 \* where chat_loop stands: "input", "create", "stream", "dispatch", "done"
    messages,           \* the transcript (chat.py:85)
    user_input,         \* the stripped line read at chat.py:111
    assistant_message,  \* the response being collected (chat.py:136)
    api_message,        \* the message appended at chat.py:204, whose tool_calls are dispatched
    tc_pos,             \* position of the for loop of chat.py:209 in api_message["tool_calls"]
    error,              \* the exception caught at chat.py:234 by the last step, "" when none
    last_outcome,       \* what func(**arguments) did in the last dispatched call (chat.py:75)
    completions,        \* number of completion calls issued so far (chat.py:127)
    nchunks,            \* number of chunks consumed from the current stream (chat.py:140)
    deltas_seen,        \* history: the tool-call deltas consumed from the current stream
    tool_request,       \* the tool function called last and its arguments (tools/sqlite.py)
    tool_outcome,       \* what that call did: the value returned or the exception raised
    opened,             \* the connections that call opened: sqlite3.connect(db_path)
    executed,           \* the statements that call executed: read_sql_query, cursor.execute
    files,              \* the database files that exist
    unclosed,           \* a connection of a returned call is not closed yet
    envelope,           \* what execute_tool made of that call (chat_browser.py:162-169)
    dispatched          \* what each execute_function made of that call (chat.py, chat_browser.py)

loop_vars == <<pc, messages, user_input, assistant_message, api_message, tc_pos,
               error, last_outcome, completions, nchunks, deltas_seen>>

tool_vars == <<tool_request, tool_outcome, opened, executed, files, unclosed,
               envelope, dispatched>>

vars == <<loop_vars, tool_vars>>

----------------------------------------------------------------------------
(* Bounds of the model *)

MaxTurns == 2          \* user messages per run
MaxCompletions == 2    \* completion calls per run
MaxChunks == 1         \* chunks per streamed completion (conversation loop)
MaxStreamChunks == 3   \* chunks per streamed completion (reconstruction alone)

----------------------------------------------------------------------------
(* Values *)

None == "<None>"
NoIndex == -1           \* tool_call_delta.index is None

SYSTEM_PROMPT == "You are a helpful healthcare assistant ..."

Last(s) == s[Len(s)]

IsPrefix(s, t) == Len(s) <= Len(t) /\ \A k \in 1..Len(s) : s[k] = t[k]

Message(role, content, tool_calls, tool_call_id) ==
    [role |-> role, content |-> content, tool_calls |-> tool_calls,
     tool_call_id |-> tool_call_id]

----------------------------------------------------------------------------
(* The line typed by the user: strip(), lower() and the exit test          *)
(* (chat.py:111-118)                                                       *)

LowerOfUpper ==
    ("E" :> "e") @@ ("X" :> "x") @@ ("I" :> "i") @@ ("T" :> "t") @@
    ("Q" :> "q") @@ ("U" :> "u") @@ ("H" :> "h")

\* str.lower() on one character
lower_char(c) == IF c \in DOMAIN LowerOfUpper THEN LowerOfUpper[c] ELSE c

\* str.lower()
lower(s) == [k \in 1..Len(s) |-> lower_char(s[k])]

IsSpace(c) == c = " "

RECURSIVE lstrip(_)
lstrip(s) == IF s # <<>> /\ IsSpace(Head(s)) THEN lstrip(Tail(s)) ELSE s

RECURSIVE rstrip(_)
rstrip(s) ==
    IF s # <<>> /\ IsSpace(s[Len(s)]) THEN rstrip(SubSeq(s, 1, Len(s) - 1)) ELSE s

\* str.strip()
strip(s) == rstrip(lstrip(s))

EXIT_WORDS == { <<"e", "x", "i", "t">>, <<"q", "u", "i", "t">> }

\* user_input.lower() in ["exit", "quit"]
is_exit_command(s) == lower(s) \in EXIT_WORDS

\* The lines the user types in the model
UserLines ==
    { <<"e", "x", "i", "t">>,
      <<" ", "Q", "u", "I", "t", " ">>,
      <<>>,
      <<" ", " ">>,
      <<"h", "i">>,
      <<" ", "h", "i", " ">> }

----------------------------------------------------------------------------
(* Argument documents and json.loads (chat.py:211)                         *)

DocDbPath == "{\"db_path\": \"./x.db\"}"
DocQuery  == "{\"query\": \"DROP TABLE t\"}"
DocList   == "[1]"

\* Argument documents of the calls of execute_tool (chat_browser.py:162), and
\* a document cut in the middle of a string
DocEmpty     == "{}"
DocSelect    == "{\"query\": \"SELECT 1\"}"
DocDates     == "{\"date1\": \"2024-01-10\", \"date2\": \"2024-01-01\"}"
DocPatient   == "{\"patient_id\": \"p1\", \"tables\": [\"labs\"]}"
DocTruncated == "{\"query\": \"SEL"

\* The fragments of DocDbPath of a streamed call
FragA == "{\"db_"
FragB == "path\":"
FragC == " \"./x.db\"}"

\* The documents json.loads accepts among the texts that the model's
\* fragments build, with the value it returns.  Each of DocDbPath, DocQuery
\* and DocList is a complete document, so any text joined from two or more
\* of them has trailing data; a text joined from FragA, FragB and FragC is a
\* document only as FragA \o FragB \o FragC; the empty text is none.
JsonDocuments ==
    (DocDbPath :> [is_dict |-> TRUE, keys |-> {"db_path"}]) @@
    (DocQuery  :> [is_dict |-> TRUE, keys |-> {"query"}]) @@
    (DocList   :> [is_dict |-> FALSE, keys |-> {}]) @@
    (DocEmpty  :> [is_dict |-> TRUE, keys |-> {}]) @@
    (DocSelect :> [is_dict |-> TRUE, keys |-> {"query"}]) @@
    (DocDates  :> [is_dict |-> TRUE, keys |-> {"date1", "date2"}]) @@
    (DocPatient :> [is_dict |-> TRUE, keys |-> {"patient_id", "tables"}])

\* json.loads(text): the parsed value, or JSONDecodeError raised
json_loads(text) ==
    IF text \in DOMAIN JsonDocuments
    THEN [raised |-> FALSE, value |-> JsonDocuments[text]]
    ELSE [raised |-> TRUE, value |-> [is_dict |-> FALSE, keys |-> {}]]

----------------------------------------------------------------------------
(* The tools and execute_function (chat.py:60-80)                          *)

FUNCTION_MAP == {"query_db", "get_db_schema"}

Returns(text) == [kind |-> "return", text |-> text]
Raises(text) == [kind |-> "raise", text |-> text]
NotCalled == [kind |-> "none", text |-> ""]

\* query_db(query, db_path=DB_PATH) bound to the parsed arguments: what the
\* call can do.  The query of DocQuery does not start with SELECT.
query_db_call(arguments) ==
    IF ~arguments.is_dict THEN {Raises("argument after ** must be a mapping")}
    ELSE IF "query" \notin arguments.keys
    THEN {Raises("missing 1 required positional argument: 'query'")}
    ELSE IF ~(arguments.keys \subseteq {"query", "db_path"})
    THEN {Raises("got an unexpected keyword argument")}
    ELSE {Raises("Only SELECT queries are allowed. This is a read-only function.")}

\* get_db_schema(db_path=DB_PATH) bound to the parsed arguments: what the
\* call can do.  The store decides between the last two: the text returned
\* (here the one of an empty catalog) and the failure of sqlite3.
get_db_schema_call(arguments) ==
    IF ~arguments.is_dict THEN {Raises("argument after ** must be a mapping")}
    ELSE IF ~(arguments.keys \subseteq {"db_path"})
    THEN {Raises("got an unexpected keyword argument")}
    ELSE {Returns("No tables found."), Raises("unable to open database file")}

\* func(**arguments) of chat.py:75: the outcomes the call can have
CallOutcomes(function_name, arguments) ==
    IF function_name = "query_db" THEN query_db_call(arguments)
    ELSE IF function_name = "get_db_schema" THEN get_db_schema_call(arguments)
    ELSE {NotCalled}

\* execute_function with the exception of chat.py:79 let out of it
execute_function_propagates(function_name, outcome) ==
    IF function_name \notin FUNCTION_MAP
    THEN [raised |-> FALSE, value |-> "Error: Function " \o function_name \o " not found."]
    ELSE IF outcome.kind = "raise"
    THEN [raised |-> TRUE, value |-> outcome.text]
    ELSE [raised |-> FALSE, value |-> outcome.text]

\* execute_function(function_name, arguments), outcome being what
\* func(**arguments) does.  No function of FUNCTION_MAP returns a dict
\* (sqlite.py:39, 41, 73), so the result is returned as it is.
execute_function(function_name, outcome) ==
    IF function_name \notin FUNCTION_MAP
    THEN [raised |-> FALSE, value |-> "Error: Function " \o function_name \o " not found."]
    ELSE IF outcome.kind = "raise"
    THEN [raised |-> FALSE,
          value |-> "Error executing " \o function_name \o ": " \o outcome.text]
    ELSE [raised |-> FALSE, value |-> outcome.text]

----------------------------------------------------------------------------
(* Streamed responses: chunks, and the merge of a chunk into the response  *)
(* being collected (chat.py:136-168)                                       *)

\* delta.tool_calls[k].function: None, or a name and an argument fragment.
\* An absent id, name or argument fragment is "": the code tests each for
\* truth only, and None and "" are both false.
NoFunction == [present |-> FALSE, name |-> "", arguments |-> ""]
Function(name, arguments) == [present |-> TRUE, name |-> name, arguments |-> arguments]

ToolCallDelta(index, id, function) == [index |-> index, id |-> id, function |-> function]

Chunk(content, tool_calls) == [content |-> content, tool_calls |-> tool_calls]

\* The accumulator appended at chat.py:154-158
EmptyToolCall ==
    [id |-> "", type |-> "function", function |-> [name |-> "", arguments |-> ""]]

\* assistant_message of chat.py:136
EmptyAssistantMessage == [role |-> "assistant", content |-> "", tool_calls |-> <<>>]

\* while len(assistant_message["tool_calls"]) <= index: append (chat.py:153-158)
RECURSIVE ensure_length(_, _)
ensure_length(tool_calls, index) ==
    IF Len(tool_calls) <= index
    THEN ensure_length(Append(tool_calls, EmptyToolCall), index)
    ELSE tool_calls

\* the id of the delta replacing the accumulator's id, empty or not
merge_id_overwrites(old, fragment) == fragment

\* chat.py:162-163
merge_id(old, fragment) == IF fragment # "" THEN fragment ELSE old

\* chat.py:165-166
merge_name(old, fragment) == IF fragment # "" THEN fragment ELSE old

\* the argument fragment replacing the text collected so far
merge_arguments_overwrites(old, fragment) == IF fragment # "" THEN fragment ELSE old

\* chat.py:167-168
merge_arguments(old, fragment) == IF fragment # "" THEN old \o fragment ELSE old

\* The body of the loop of chat.py:150-168 for one tool_call_delta
merge_tool_call_delta(tool_calls, d) ==
    IF d.index = NoIndex THEN tool_calls
    ELSE
        LET padded == ensure_length(tool_calls, d.index)
            current_tool_call == padded[d.index + 1]
            with_id == [current_tool_call EXCEPT !.id = merge_id(@, d.id)]
            merged ==
                IF d.function.present
                THEN [with_id EXCEPT
                        !.function.name = merge_name(@, d.function.name),
                        !.function.arguments = merge_arguments(@, d.function.arguments)]
                ELSE with_id
        IN [padded EXCEPT ![d.index + 1] = merged]

\* for tool_call_delta in delta.tool_calls (chat.py:149-168)
RECURSIVE merge_tool_call_deltas(_, _)
merge_tool_call_deltas(tool_calls, ds) ==
    IF ds = <<>> THEN tool_calls
    ELSE merge_tool_call_deltas(merge_tool_call_delta(tool_calls, Head(ds)), Tail(ds))

\* The body of the loop of chat.py:140-168 for one chunk
merge_chunk(am, chunk) ==
    [am EXCEPT
        !.content = IF chunk.content # "" THEN @ \o chunk.content ELSE @,
        !.tool_calls = merge_tool_call_deltas(@, chunk.tool_calls)]

\* The accumulator as it is recorded in the assistant message (chat.py:178-185)
ToolCallRequest(tc) ==
    [id |-> tc.id, type |-> tc.type,
     function |-> [name |-> tc.function.name, arguments |-> tc.function.arguments]]

\* every accumulator recorded, with or without an id
all_tool_calls(accumulators) ==
    [k \in 1..Len(accumulators) |-> ToolCallRequest(accumulators[k])]

\* tool_calls of chat.py:175-185: the accumulators that have an id, in order
RECURSIVE called_tool_calls(_)
called_tool_calls(accumulators) ==
    IF accumulators = <<>> THEN <<>>
    ELSE IF Head(accumulators).id # ""
    THEN <<ToolCallRequest(Head(accumulators))>> \o called_tool_calls(Tail(accumulators))
    ELSE called_tool_calls(Tail(accumulators))

\* api_message of chat.py:173-202.  A message without the key "tool_calls"
\* has tool_calls = <<>>: chat.py:207 reads the key with get() and tests it
\* for truth, and a recorded list is never empty (chat.py:187).
to_api_message(am) ==
    LET tool_calls == called_tool_calls(am.tool_calls)
    IN IF am.tool_calls # <<>> /\ tool_calls # <<>>
       THEN Message("assistant", IF am.content # "" THEN am.content ELSE None,
                    tool_calls, "")
       ELSE Message("assistant", am.content, <<>>, "")

\* the tool-role message carrying the function name in place of the id
tool_message_by_name(tool_call, function_result) ==
    Message("tool", function_result, <<>>, tool_call.function.name)

\* The message appended at chat.py:222-228
tool_message(tool_call, function_result) ==
    Message("tool", function_result, <<>>, tool_call.id)

\* the calls taken from the last to the first
tool_call_at_reversed(tool_calls, position) == tool_calls[Len(tool_calls) + 1 - position]

\* The call the for loop of chat.py:209 handles in its position-th iteration
tool_call_at(tool_calls, position) == tool_calls[position]

\* the handler dropping the last message of the transcript
messages_after_exception_rollback(msgs) == SubSeq(msgs, 1, Len(msgs) - 1)

\* the handler recording what a failed stream had delivered
messages_after_exception_keeps_fragments(msgs) ==
    IF pc = "stream" THEN Append(msgs, to_api_message(assistant_message)) ELSE msgs

\* The transcript after the handler of chat.py:234-236: it prints and breaks
messages_after_exception(msgs) == msgs

\* the handler starting the completion call again
pc_after_exception_retry == "create"

\* the handler of a stream that failed dispatching the calls received so far
pc_after_exception_dispatches ==
    IF pc = "stream" /\ assistant_message.tool_calls # <<>> THEN "dispatch" ELSE "input"

\* Where chat_loop stands after the break of chat.py:236: at input() (chat.py:111)
pc_after_exception == "input"

----------------------------------------------------------------------------
(* The responses the completion service streams in the model               *)

\* Chunks of the conversation loop: whole names and whole argument
\* documents.  The call at index 0 has the id "call_a" and the call at
\* index 1 the id "call_b", or no id yet.
LoopFunctions ==
    { NoFunction,
      Function("get_db_schema", DocDbPath),
      Function("get_db_schema", ""),
      Function("bogus", DocDbPath) }

LoopDeltas ==
    { ToolCallDelta(0, id, f) : id \in {"", "call_a"}, f \in LoopFunctions } \cup
    { ToolCallDelta(1, "call_b", Function("get_db_schema", DocDbPath)),
      ToolCallDelta(NoIndex, "call_a", Function("get_db_schema", DocDbPath)) }

\* Two calls announced by one chunk
LoopPairs ==
    { <<d, ToolCallDelta(1, "call_b", Function("get_db_schema", DocDbPath))>> :
        d \in { ToolCallDelta(0, "call_a", Function("get_db_schema", DocDbPath)),
                ToolCallDelta(0, "call_a", Function("get_db_schema", "")),
                ToolCallDelta(0, "call_a", Function("bogus", DocDbPath)),
                ToolCallDelta(0, "", Function("get_db_schema", DocDbPath)) } }

LoopChunks ==
    { Chunk("Hi", <<>>) } \cup
    { Chunk("", <<d>>) : d \in LoopDeltas } \cup
    { Chunk("Hi", ds) : ds \in LoopPairs }

\* Chunks of the reconstruction alone: names and argument documents in fragments
StreamFunctions ==
    {NoFunction} \cup
    { Function(n, a) : n \in {"", "get_", "db_schema"}, a \in {"", FragA, FragB, FragC} }

StreamDeltas ==
    { ToolCallDelta(0, id, f) : id \in {"", "call_a"}, f \in StreamFunctions } \cup
    { ToolCallDelta(1, id, f) : id \in {"", "call_a"},
                                f \in {NoFunction, Function("get_", FragA),
                                       Function("db_schema", FragB),
                                       Function("", FragC)} } \cup
    { ToolCallDelta(NoIndex, "call_a", Function("get_", FragA)) }

StreamChunks ==
    { Chunk("", <<d>>) : d \in StreamDeltas } \cup
    { Chunk("Hi", <<>>) }

----------------------------------------------------------------------------
(* The store (tools/sqlite.py:6, sqlite3.connect)                          *)

DB_PATH == "./synthea_data.db"

\* A locator of no file yet, in a directory that exists
NEW_PATH == "./new.db"

\* A locator in a directory that does not exist
BAD_PATH == "/nodir/x.db"

DbPaths == {DB_PATH, NEW_PATH, BAD_PATH}

\* A database file and what it holds: "loaded" (the data of load_sqlite.py),
\* "empty" (a file sqlite3 created), "written" (a file a statement changed)
File(db_path, contents) == [path |-> db_path, contents |-> contents]

NoRequest == [function |-> "none"]

NoDispatch == [chat |-> NotCalled, browser |-> NotCalled]

\* execute_tool has not been called
NoEnvelope == [raised |-> FALSE, value |-> [success |-> FALSE, error |-> "none"]]

\* No tool function has been called
ToolsIdle ==
    /\ tool_request = NoRequest
    /\ tool_outcome = NotCalled
    /\ opened = <<>>
    /\ executed = <<>>
    /\ files = {File(DB_PATH, "loaded")}
    /\ unclosed = FALSE
    /\ envelope = NoEnvelope
    /\ dispatched = NoDispatch

----------------------------------------------------------------------------
(* chat_loop (chat.py:83-236)                                              *)

NoMessage == Message("assistant", "", <<>>, "")

Init ==
    /\ ToolsIdle
    /\ pc = "input"
    /\ messages = << Message("system", SYSTEM_PROMPT, <<>>, "") >>
    /\ user_input = <<>>
    /\ assistant_message = EmptyAssistantMessage
    /\ api_message = NoMessage
    /\ tc_pos = 0
    /\ error = ""
    /\ last_outcome = NotCalled
    /\ completions = 0
    /\ nchunks = 0
    /\ deltas_seen = <<>>

NumUserMessages(msgs) == Cardinality({k \in 1..Len(msgs) : msgs[k].role = "user"})

\* chat.py:111-121: one line is read; exit and quit end the loop, an empty
\* line is skipped, any other line is appended and the turn starts
UserInput ==
    /\ pc = "input"
    /\ \E line \in UserLines :
         LET stripped == strip(line) IN
         /\ user_input' = stripped
         /\ IF is_exit_command(stripped)
            THEN pc' = "done" /\ UNCHANGED messages
            ELSE IF stripped = <<>>
            THEN UNCHANGED <<pc, messages>>
            ELSE /\ NumUserMessages(messages) < MaxTurns
                 /\ messages' = Append(messages, Message("user", stripped, <<>>, ""))
                 /\ pc' = "create"
    /\ error' = ""
    /\ last_outcome' = NotCalled
    /\ UNCHANGED <<assistant_message, api_message, tc_pos, completions, nchunks, deltas_seen>>
    /\ UNCHANGED tool_vars

\* chat.py:127-138: the completion call returns a stream
CreateStream ==
    /\ pc = "create"
    /\ completions < MaxCompletions
    /\ completions' = completions + 1
    /\ assistant_message' = EmptyAssistantMessage
    /\ nchunks' = 0
    /\ pc' = "stream"
    /\ error' = ""
    /\ last_outcome' = NotCalled
    /\ UNCHANGED <<messages, user_input, api_message, tc_pos, deltas_seen>>
    /\ UNCHANGED tool_vars

\* chat.py:127-133, 234-236: the completion call raises
CreateFails ==
    /\ pc = "create"
    /\ completions < MaxCompletions
    /\ completions' = completions + 1
    /\ error' = "transport"
    /\ messages' = messages_after_exception(messages)
    /\ pc' = pc_after_exception
    /\ last_outcome' = NotCalled
    /\ UNCHANGED <<user_input, assistant_message, api_message, tc_pos, nchunks, deltas_seen>>
    /\ UNCHANGED tool_vars

\* chat.py:140-168: one chunk of the stream is merged
ConsumeChunk(chunk, max) ==
    /\ pc = "stream"
    /\ nchunks < max
    /\ nchunks' = nchunks + 1
    /\ assistant_message' = merge_chunk(assistant_message, chunk)
    /\ error' = ""
    /\ last_outcome' = NotCalled
    /\ UNCHANGED <<pc, messages, user_input, api_message, tc_pos, completions>>
    /\ UNCHANGED tool_vars

StreamChunk ==
    \E chunk \in LoopChunks :
        ConsumeChunk(chunk, MaxChunks) /\ UNCHANGED deltas_seen

\* chat.py:140, 234-236: the stream raises while it is read
StreamFails ==
    /\ pc = "stream"
    /\ error' = "transport"
    /\ messages' = messages_after_exception(messages)
    /\ pc' = pc_after_exception
    /\ last_outcome' = NotCalled
    /\ UNCHANGED <<user_input, assistant_message, api_message, tc_pos, completions,
                   nchunks, deltas_seen>>
    /\ UNCHANGED tool_vars

\* The break of chat.py:232 left out: another completion call follows
pc_after_plain_response_continues == "create"

\* chat.py:229-232: a response without tool calls ends the turn
pc_after_plain_response == "input"

\* chat.py:170-207, 229-232: the stream ends, the response is appended; with
\* tool calls the dispatch starts, without the turn ends
StreamEnd ==
    /\ pc = "stream"
    /\ LET api == to_api_message(assistant_message) IN
         /\ messages' = Append(messages, api)
         /\ IF api.tool_calls # <<>>
            THEN pc' = "dispatch" /\ api_message' = api /\ tc_pos' = 1
            ELSE pc' = pc_after_plain_response /\ UNCHANGED <<api_message, tc_pos>>
    /\ error' = ""
    /\ last_outcome' = NotCalled
    /\ UNCHANGED <<user_input, assistant_message, completions, nchunks, deltas_seen>>
    /\ UNCHANGED tool_vars

\* The for loop of chat.py:209 moves on: to the next call, or to the next
\* completion call of the turn (chat.py:124)
LoopAdvances ==
    IF tc_pos = Len(api_message.tool_calls)
    THEN pc' = "create" /\ api_message' = NoMessage /\ tc_pos' = 0
    ELSE pc' = "dispatch" /\ tc_pos' = tc_pos + 1 /\ UNCHANGED api_message

\* chat.py:209-228, 234-236: one tool call is parsed, executed and answered;
\* an exception of json.loads or of execute_function ends the turn
DispatchToolCall ==
    /\ pc = "dispatch"
    /\ LET tool_call == tool_call_at(api_message.tool_calls, tc_pos)
           function_name == tool_call.function.name
           parsed == json_loads(tool_call.function.arguments)
       IN IF parsed.raised
          THEN /\ error' = "JSONDecodeError"
               /\ last_outcome' = NotCalled
               /\ messages' = messages_after_exception(messages)
               /\ pc' = pc_after_exception
               /\ api_message' = NoMessage
               /\ tc_pos' = 0
          ELSE \E outcome \in CallOutcomes(function_name, parsed.value) :
                 LET function_result == execute_function(function_name, outcome) IN
                 /\ last_outcome' = outcome
                 /\ IF function_result.raised
                    THEN /\ error' = "tool"
                         /\ messages' = messages_after_exception(messages)
                         /\ pc' = pc_after_exception
                         /\ api_message' = NoMessage
                         /\ tc_pos' = 0
                    ELSE /\ error' = ""
                         /\ messages' = Append(messages,
                                           tool_message(tool_call, function_result.value))
                         /\ LoopAdvances
    /\ UNCHANGED <<user_input, assistant_message, completions, nchunks, deltas_seen>>
    /\ UNCHANGED tool_vars

Next ==
    \/ UserInput
    \/ CreateStream
    \/ CreateFails
    \/ StreamChunk
    \/ StreamFails
    \/ StreamEnd
    \/ DispatchToolCall

Spec == Init /\ [][Next]_vars

----------------------------------------------------------------------------
(* The reconstruction of one streamed response alone, with the history of  *)
(* the tool-call deltas it consumed: chat_loop from chat.py:136 to         *)
(* chat.py:207, in the first turn                                          *)

InitStream ==
    /\ ToolsIdle
    /\ pc = "stream"
    /\ messages = << Message("system", SYSTEM_PROMPT, <<>>, ""),
                     Message("user", <<"h", "i">>, <<>>, "") >>
    /\ user_input = <<"h", "i">>
    /\ assistant_message = EmptyAssistantMessage
    /\ api_message = NoMessage
    /\ tc_pos = 0
    /\ error = ""
    /\ last_outcome = NotCalled
    /\ completions = 1
    /\ nchunks = 0
    /\ deltas_seen = <<>>

StreamChunkRecorded ==
    \E chunk \in StreamChunks :
        /\ ConsumeChunk(chunk, MaxStreamChunks)
        /\ deltas_seen' = deltas_seen \o chunk.tool_calls

NextStream ==
    \/ StreamChunkRecorded
    \/ StreamEnd

SpecStream == InitStream /\ [][NextStream]_vars

----------------------------------------------------------------------------
(* The dispatch of the tool calls of one assistant message alone: chat_loop *)
(* from chat.py:207 to chat.py:236, in the first turn, for every one or two *)
(* calls over the names and argument texts below                            *)

DispatchFunctions ==
    { [name |-> n, arguments |-> a] :
        n \in {"get_db_schema", "query_db", "bogus"},
        a \in {"", DocDbPath, DocQuery, DocList} }

DispatchRequests ==
    { << [id |-> "call_a", type |-> "function", function |-> f] >> :
        f \in DispatchFunctions } \cup
    { << [id |-> "call_a", type |-> "function", function |-> f],
         [id |-> "call_b", type |-> "function", function |-> g] >> :
        f \in DispatchFunctions, g \in DispatchFunctions }

InitDispatch ==
    \E tool_calls \in DispatchRequests :
        /\ ToolsIdle
        /\ pc = "dispatch"
        /\ messages = << Message("system", SYSTEM_PROMPT, <<>>, ""),
                         Message("user", <<"h", "i">>, <<>>, ""),
                         Message("assistant", None, tool_calls, "") >>
        /\ user_input = <<"h", "i">>
        /\ assistant_message =
               [role |-> "assistant", content |-> "", tool_calls |-> tool_calls]
        /\ api_message = Message("assistant", None, tool_calls, "")
        /\ tc_pos = 1
        /\ error = ""
        /\ last_outcome = NotCalled
        /\ completions = 1
        /\ nchunks = 1
        /\ deltas_seen = <<>>

NextDispatch == DispatchToolCall

SpecDispatch == InitDispatch /\ [][NextDispatch]_vars

----------------------------------------------------------------------------
(* Properties of the transcript                                            *)

\* The tool-role messages that directly follow message j: positions j+1..AnswersEnd
AnswersEnd(msgs, j) ==
    CHOOSE e \in j..Len(msgs) :
        /\ \A k \in (j + 1)..e : msgs[k].role = "tool"
        /\ e = Len(msgs) \/ msgs[e + 1].role # "tool"

\* The ids of the tool-role messages that directly follow message j, in order
AnswerIds(msgs, j) ==
    [k \in 1..(AnswersEnd(msgs, j) - j) |-> msgs[j + k].tool_call_id]

\* The ids of the calls requested by message j, in order
RequestIds(msgs, j) ==
    [k \in 1..Len(msgs[j].tool_calls) |-> msgs[j].tool_calls[k].id]

AssistantPositions(msgs) == {j \in 1..Len(msgs) : msgs[j].role = "assistant"}

\* Position of the last user message
LastUserPosition(msgs) ==
    CHOOSE u \in 1..Len(msgs) :
        /\ msgs[u].role = "user"
        /\ \A k \in (u + 1)..Len(msgs) : msgs[k].role # "user"

\* The call the dispatch stands at
CurrentToolCall == api_message.tool_calls[tc_pos]

\* C1: whenever a completion call is issued, every tool call requested by an
\* assistant message of the transcript is answered by exactly one tool-role
\* message that carries its id, among the messages that follow it.
C1_EveryRequestAnsweredOnce ==
    pc = "create" =>
        \A j \in AssistantPositions(messages) :
            \A c \in 1..Len(messages[j].tool_calls) :
                Cardinality({k \in (j + 1)..AnswersEnd(messages, j) :
                    messages[k].tool_call_id = messages[j].tool_calls[c].id}) = 1

\* C2: a dispatched call whose argument text does not parse is answered by a
\* tool-role message carrying its id, no exception ends the turn, and the
\* loop goes on with the next call or the next completion call.
C2_MalformedArgumentsAnswered ==
    [][ (pc = "dispatch" /\ json_loads(CurrentToolCall.function.arguments).raised) =>
            /\ error' = ""
            /\ Len(messages') = Len(messages) + 1
            /\ IsPrefix(messages, messages')
            /\ Last(messages').role = "tool"
            /\ Last(messages').tool_call_id = CurrentToolCall.id
            /\ pc' \in {"dispatch", "create"} ]_vars

\* C3: every tool-role message carries the id of a call requested by the
\* nearest assistant message before it, and only tool-role messages lie
\* between the two.
C3_ToolMessageFollowsItsRequest ==
    \A k \in 1..Len(messages) :
        messages[k].role = "tool" =>
            \E j \in 1..(k - 1) :
                /\ messages[j].role = "assistant"
                /\ \A m \in (j + 1)..(k - 1) : messages[m].role = "tool"
                /\ \E c \in 1..Len(messages[j].tool_calls) :
                       messages[j].tool_calls[c].id = messages[k].tool_call_id

\* C3 witness: two calls of one assistant message are answered, one after
\* the other.
C3_Witness ==
    /\ Len(messages) >= 5
    /\ messages[Len(messages) - 2].role = "assistant"
    /\ messages[Len(messages) - 1].role = "tool"
    /\ messages[Len(messages)].role = "tool"
    /\ messages[Len(messages) - 1].tool_call_id # messages[Len(messages)].tool_call_id

\* C4: the calls of one assistant message are executed one at a time in the
\* order of the requests: the tool-role messages after an assistant message
\* answer its first calls in that order, the call at position tc_pos starts
\* when exactly the tc_pos - 1 calls before it are answered, and a completion
\* call of the same turn starts only when every call is answered.
C4_CallsAnsweredInOrder ==
    /\ \A j \in AssistantPositions(messages) :
           /\ Len(AnswerIds(messages, j)) <= Len(RequestIds(messages, j))
           /\ AnswerIds(messages, j) =
                  SubSeq(RequestIds(messages, j), 1, Len(AnswerIds(messages, j)))
    /\ pc = "dispatch" =>
           /\ Len(messages) - tc_pos + 1 \in AssistantPositions(messages)
           /\ messages[Len(messages) - tc_pos + 1] = api_message
           /\ AnswersEnd(messages, Len(messages) - tc_pos + 1) = Len(messages)
    /\ pc \in {"create", "stream"} =>
           \A j \in AssistantPositions(messages) :
               j > LastUserPosition(messages) =>
                   AnswerIds(messages, j) = RequestIds(messages, j)

\* C4 witness: the second completion call of a turn has started after both
\* calls of the assistant message were answered in the order of the requests.
C4_Witness ==
    /\ pc = "stream"
    /\ Len(messages) = 5
    /\ RequestIds(messages, 3) = <<"call_a", "call_b">>
    /\ AnswerIds(messages, 3) = <<"call_a", "call_b">>

\* C5: when the stream ends, the accumulators with an id are recorded in the
\* assistant message, in their order, and no other; without any such
\* accumulator the message is plain content and the turn ends; no call
\* without an id is dispatched or answered.
C5_OnlyCallsWithIdRecorded ==
    [][ (pc = "stream" /\ pc' # "stream" /\ error' # "transport") =>
            LET accumulators == assistant_message.tool_calls
                WithId == {k \in 1..Len(accumulators) : accumulators[k].id # ""}
                Rank(k) == Cardinality({i \in WithId : i <= k})
                recorded == Last(messages').tool_calls
            IN /\ error' = ""
               /\ Len(messages') = Len(messages) + 1
               /\ Last(messages').role = "assistant"
               /\ Len(recorded) = Cardinality(WithId)
               /\ \A k \in WithId :
                      /\ recorded[Rank(k)].id = accumulators[k].id
                      /\ recorded[Rank(k)].function = accumulators[k].function
               /\ WithId = {} =>
                      /\ Last(messages').content = assistant_message.content
                      /\ pc' = "input"
               /\ WithId # {} =>
                      /\ pc' = "dispatch"
                      /\ api_message' = Last(messages') ]_vars

\* C5 witness: the stream ended with an accumulator without an id before one
\* with an id; only the second is recorded and about to be dispatched.
C5_Witness ==
    /\ pc = "dispatch"
    /\ tc_pos = 1
    /\ Len(assistant_message.tool_calls) = 2
    /\ assistant_message.tool_calls[1].id = ""
    /\ assistant_message.tool_calls[1].function.name = "get_db_schema"
    /\ RequestIds(messages, Len(messages)) = <<"call_b">>

----------------------------------------------------------------------------
(* Properties of the reconstruction                                        *)

\* The name fragments of the deltas for one index, joined in arrival order
RECURSIVE JoinedName(_, _)
JoinedName(ds, index) ==
    IF ds = <<>> THEN ""
    ELSE (IF Head(ds).index = index /\ Head(ds).function.present
          THEN Head(ds).function.name ELSE "") \o JoinedName(Tail(ds), index)

\* The argument fragments of the deltas for one index, joined in arrival order
RECURSIVE JoinedArguments(_, _)
JoinedArguments(ds, index) ==
    IF ds = <<>> THEN ""
    ELSE (IF Head(ds).index = index /\ Head(ds).function.present
          THEN Head(ds).function.arguments ELSE "") \o JoinedArguments(Tail(ds), index)

\* The positions of the deltas that carry a name for one index
NamePositions(ds, index) ==
    {k \in 1..Len(ds) :
        ds[k].index = index /\ ds[k].function.present /\ ds[k].function.name # ""}

\* The last name fragment that arrived for one index, "" when none did
LastName(ds, index) ==
    IF NamePositions(ds, index) = {} THEN ""
    ELSE ds[CHOOSE k \in NamePositions(ds, index) :
                \A m \in NamePositions(ds, index) : m <= k].function.name

\* The requests recorded from the accumulators: those with an id, by index
RecordedIndexes == {i \in 0..(Len(assistant_message.tool_calls) - 1) :
                        assistant_message.tool_calls[i + 1].id # ""}

\* C6 as claimed: the name of every reconstructed call is its name fragments
\* joined in arrival order, and its argument text is its argument fragments
\* joined in arrival order.
C6_NameAndArgumentsJoined ==
    \A i \in 0..(Len(assistant_message.tool_calls) - 1) :
        /\ assistant_message.tool_calls[i + 1].function.name = JoinedName(deltas_seen, i)
        /\ assistant_message.tool_calls[i + 1].function.arguments =
               JoinedArguments(deltas_seen, i)

\* C6 amended: the argument text of every reconstructed call is its argument
\* fragments joined in arrival order, and its name is the last non-empty name
\* fragment that arrived for its index ("db_schema" for "get_" then
\* "db_schema"); the requests dispatched carry these names and texts.
C6_ArgumentsJoinedNameLast ==
    /\ \A i \in 0..(Len(assistant_message.tool_calls) - 1) :
           /\ assistant_message.tool_calls[i + 1].function.name = LastName(deltas_seen, i)
           /\ assistant_message.tool_calls[i + 1].function.arguments =
                  JoinedArguments(deltas_seen, i)
    /\ pc = "dispatch" =>
           /\ Len(api_message.tool_calls) = Cardinality(RecordedIndexes)
           /\ \A i \in RecordedIndexes :
                  \E c \in 1..Len(api_message.tool_calls) :
                      /\ c = Cardinality({j \in RecordedIndexes : j <= i})
                      /\ api_message.tool_calls[c].function =
                             [name |-> LastName(deltas_seen, i),
                              arguments |-> JoinedArguments(deltas_seen, i)]

\* C6 witness: the call at index 0 arrived with the name split as "get_" and
\* "db_schema" and the argument text split in three; it is dispatched with
\* the name "db_schema" and the whole argument text.
C6_Witness ==
    /\ pc = "dispatch"
    /\ JoinedName(deltas_seen, 0) = "get_db_schema"
    /\ Len(deltas_seen) = 3
    /\ \A k \in 1..3 : deltas_seen[k].function.arguments # ""
    /\ api_message.tool_calls[1].function =
           [name |-> "db_schema", arguments |-> DocDbPath]

----------------------------------------------------------------------------
(* Properties of the dispatch and of the turn                              *)

\* C7: a dispatched call whose name is not a tool is answered by a tool-role
\* message with the error text naming it, no exception ends the turn, and
\* the loop goes on with the next call or the next completion call.
C7_UnknownToolAnswered ==
    [][ (pc = "dispatch" /\ CurrentToolCall.function.name \notin FUNCTION_MAP) =>
            /\ error' = ""
            /\ messages' = Append(messages,
                   Message("tool",
                           "Error: Function " \o CurrentToolCall.function.name
                               \o " not found.",
                           <<>>, CurrentToolCall.id))
            /\ pc' \in {"dispatch", "create"} ]_vars

\* C8: when the invoked tool raises, no exception leaves execute_function:
\* the call is answered by a tool-role message with an error text that
\* names the tool and the failure, and the loop goes on.
C8_ToolFailureBecomesText ==
    [][ (pc = "dispatch" /\ last_outcome'.kind = "raise") =>
            /\ error' = ""
            /\ messages' = Append(messages,
                   Message("tool",
                           "Error executing " \o CurrentToolCall.function.name
                               \o ": " \o last_outcome'.text,
                           <<>>, CurrentToolCall.id))
            /\ pc' \in {"dispatch", "create"} ]_vars

\* C8 witness: query_db rejected its query, and the call is answered with
\* the error text.
C8_Witness ==
    /\ last_outcome = Raises("Only SELECT queries are allowed. This is a read-only function.")
    /\ error = ""
    /\ Last(messages).role = "tool"
    /\ Last(messages).content =
           "Error executing query_db: Only SELECT queries are allowed. This is a read-only function."

\* exit or quit in any letter case
IsExitWord(line) ==
    \E w \in { <<"e", "x", "i", "t">>, <<"q", "u", "i", "t">> } :
        /\ Len(line) = Len(w)
        /\ \A k \in 1..Len(w) :
               \/ line[k] = w[k]
               \/ (line[k] \in DOMAIN LowerOfUpper /\ LowerOfUpper[line[k]] = w[k])

\* C9: a failed completion call ends the turn and nothing else: the loop
\* waits for input with the transcript as it was, a completion call starts
\* only from a new user message or from answered tool calls, and the loop
\* ends exactly when the user enters exit or quit in any letter case.
C9_TransportFailureEndsTurnOnly ==
    [][ /\ error' = "transport" =>
              /\ pc \in {"create", "stream"}
              /\ pc' = "input"
              /\ messages' = messages
        /\ (pc = "input" /\ pc' # "input") =>
              \/ pc' = "done" /\ IsExitWord(user_input')
              \/ /\ pc' = "create"
                 /\ ~IsExitWord(user_input')
                 /\ Len(messages') = Len(messages) + 1
                 /\ Last(messages').role = "user"
        /\ (pc = "input" /\ IsExitWord(user_input')) => pc' = "done"
        /\ pc' = "done" => pc \in {"input", "done"}
        /\ pc = "done" => pc' = "done"
        /\ completions' # completions => pc = "create" ]_vars

\* C9 witness: the stream of the second completion call of a turn failed
\* after a chunk, and the loop waits for input.
C9_Witness ==
    /\ error = "transport"
    /\ pc = "input"
    /\ completions = 2
    /\ nchunks = 1
    /\ Last(messages).role = "tool"

\* C10: every step leaves the transcript as it was or appends to it.
C10_TranscriptAppendOnly ==
    [][ IsPrefix(messages, messages') ]_vars

\* C10 witness: after a user message, a response with a call, its answer, a
\* failed completion call and a further user message, the transcript holds
\* all of them and the next completion call is about to be issued.
C10_Witness ==
    /\ pc = "create"
    /\ Len(messages) = 5
    /\ messages[2].role = "user"
    /\ messages[3].role = "assistant"
    /\ messages[4].role = "tool"
    /\ messages[5].role = "user"

----------------------------------------------------------------------------
(* Text of queries: sequences of one-character strings, so that strip(),   *)
(* upper(), startswith() and the in operator are computed                  *)

LowerLetters ==
    <<"a", "b", "c", "d", "e", "f", "g", "h", "i", "j", "k", "l", "m",
      "n", "o", "p", "q", "r", "s", "t", "u", "v", "w", "x", "y", "z">>

UpperLetters ==
    <<"A", "B", "C", "D", "E", "F", "G", "H", "I", "J", "K", "L", "M",
      "N", "O", "P", "Q", "R", "S", "T", "U", "V", "W", "X", "Y", "Z">>

\* str.upper() on one character
upper_char(c) ==
    IF \E k \in DOMAIN LowerLetters : LowerLetters[k] = c
    THEN UpperLetters[CHOOSE k \in DOMAIN LowerLetters : LowerLetters[k] = c]
    ELSE c

\* str.upper()
upper(s) == [k \in 1..Len(s) |-> upper_char(s[k])]

\* s.startswith(prefix)
startswith(s, prefix) == IsPrefix(prefix, s)

\* sub in s, for strings
contains(s, sub) ==
    \E i \in 1..(Len(s) - Len(sub) + 1) : SubSeq(s, i, i + Len(sub) - 1) = sub

\* The string of a sequence of characters
RECURSIVE text(_)
text(s) == IF s = <<>> THEN "" ELSE Head(s) \o text(Tail(s))

----------------------------------------------------------------------------
(* query_db (tools/sqlite.py:9-41)                                         *)

SELECT == <<"S", "E", "L", "E", "C", "T">>

\* tools/sqlite.py:30
dangerous_keywords ==
    << <<"I", "N", "S", "E", "R", "T">>,
       <<"U", "P", "D", "A", "T", "E">>,
       <<"D", "E", "L", "E", "T", "E">>,
       <<"D", "R", "O", "P">>,
       <<"C", "R", "E", "A", "T", "E">>,
       <<"A", "L", "T", "E", "R">>,
       <<"T", "R", "U", "N", "C", "A", "T", "E">> >>

\* sqlite3.connect(db_path): the connection is opened for reading and
\* writing and the file is created when it does not exist; in a directory
\* that does not exist the call raises
connect_mode == "rwc"

Connection(db_path, mode) == [path |-> db_path, mode |-> mode]

connect_raises(db_path, fs) == db_path = BAD_PATH

NewFile(db_path) == File(db_path, "empty")

FileExists(db_path, fs) == \E f \in fs : f.path = db_path

files_after_connect(db_path, fs) ==
    IF connect_raises(db_path, fs) \/ FileExists(db_path, fs) THEN fs
    ELSE fs \cup {NewFile(db_path)}

\* What the store answers to a statement that reads: rows, no row, or a
\* failure (no such table, no such column, a syntax error, ...)
StoreAnswers == {"rows", "empty", "error"}

\* df.to_string(index=False) of the rows the store answered
ROWS_TEXT == "<rows>"

\* str(e) of the failure of the store
STORE_ERROR == "<sqlite3 error>"

\* A statement executed: its text, its bound parameter values and what the
\* store answered
Statement(query_text, params, answer) ==
    [text |-> query_text, params |-> params, answer |-> answer]

\* str(e) of the failure of sqlite3.connect
CONNECT_ERROR == "unable to open database file"

\* The handler of tools/sqlite.py:40 letting the exception out
query_failure_raised(message) == Raises(message)

\* tools/sqlite.py:40-41: a failure of the connection or of the statement
\* is returned as text
query_failure(message) == Returns("Error executing query: " \o message)

\* The for loop of tools/sqlite.py:32 left out
first_dangerous_unchecked(query_upper) == 0

\* The first keyword of query that is in query_upper, in the order of the
\* for loop of tools/sqlite.py:32; 0 when none is
first_dangerous(query_upper) ==
    IF \E k \in 1..Len(dangerous_keywords) : contains(query_upper, dangerous_keywords[k])
    THEN CHOOSE k \in 1..Len(dangerous_keywords) :
            /\ contains(query_upper, dangerous_keywords[k])
            /\ \A j \in 1..(k - 1) : ~contains(query_upper, dangerous_keywords[j])
    ELSE 0

\* query_db(query, db_path) on the files fs, answer being what the store
\* answers: the outcome of the call, the connections it opened, the
\* statements it executed and the files after it
query_db(query, db_path, fs, answer) ==
    LET query_upper == upper(strip(query))
        rejected(message) ==
            [outcome |-> Raises(message), opened |-> <<>>, executed |-> <<>>, files |-> fs]
    IN
    IF ~startswith(query_upper, SELECT)
    THEN rejected("Only SELECT queries are allowed. This is a read-only function.")
    ELSE IF first_dangerous(query_upper) # 0
    THEN rejected("Query contains forbidden keyword: "
                    \o text(dangerous_keywords[first_dangerous(query_upper)])
                    \o ". This is a read-only function.")
    ELSE IF connect_raises(db_path, fs)
    THEN [outcome |-> query_failure(CONNECT_ERROR),
          opened |-> <<>>, executed |-> <<>>, files |-> fs]
    ELSE [outcome |->
              IF answer = "rows" THEN Returns(ROWS_TEXT)
              ELSE IF answer = "empty" THEN Returns("No results found.")
              ELSE query_failure(STORE_ERROR),
          opened |-> << Connection(db_path, connect_mode) >>,
          executed |-> << Statement(text(query), <<>>, answer) >>,
          files |-> files_after_connect(db_path, fs)]

\* The queries of the model: reads, reads of columns whose names hold a
\* keyword, a common table expression, a write without any keyword of
\* dangerous_keywords, and each keyword as a word of its own, after a
\* SELECT and at the start
PlainQueries ==
    { <<"S", "E", "L", "E", "C", "T", " ", "1">>,
      <<" ", " ", "s", "e", "l", "e", "c", "t", " ", "*", " ", "f", "r", "o", "m", " ", "t", " ">>,
    <<"S", "E", "L", "E", "C", "T", " ", "c", "r", "e", "a", "t", "e",
      "d", "_", "a", "t", " ", "F", "R", "O", "M", " ", "t">>,
    <<"S", "E", "L", "E", "C", "T", " ", "l", "a", "s", "t", "_", "u",
      "p", "d", "a", "t", "e", "d", " ", "F", "R", "O", "M", " ", "t">>,
    <<"W", "I", "T", "H", " ", "c", " ", "A", "S", " ", "(", "S", "E",
      "L", "E", "C", "T", " ", "1", ")", " ", "S", "E", "L", "E", "C", "T",
      " ", "*", " ", "F", "R", "O", "M", " ", "c">>,
    <<"R", "E", "P", "L", "A", "C", "E", " ", "I", "N", "T", "O", " ",
      "t", " ", "V", "A", "L", "U", "E", "S", " ", "(", "1", ")">>,
    <<"P", "R", "A", "G", "M", "A", " ", "u", "s", "e", "r", "_", "v",
      "e", "r", "s", "i", "o", "n", " ", "=", " ", "5">> }

KeywordSpellings ==
    { <<"i", "n", "s", "e", "r", "t">>,
      <<"U", "p", "d", "a", "t", "e">>,
      <<"d", "e", "L", "e", "t", "e">>,
      <<"d", "r", "o", "p">>,
      <<"C", "r", "e", "a", "t", "e">>,
      <<"a", "l", "t", "e", "r">>,
      <<"T", "r", "u", "n", "C", "a", "t", "e">>,
      <<"D", "R", "O", "P">> }

KeywordQueries ==
    { <<"s", "e", "l", "e", "c", "t", " ", "1", ";", " ">> \o k \o <<" ", "t">> : k \in KeywordSpellings } \cup
    { k \o <<" ", "t">> : k \in KeywordSpellings } \cup
    { <<"S", "E", "L", "E", "C", "T", " ", "a", " ", "F", "R", "O", "M", " ", "t", " ", "W", "H", "E", "R", "E", " ", "b", " ", "=", " ", "'">> \o k \o <<"'">> : k \in KeywordSpellings }

Queries == PlainQueries \cup KeywordQueries

----------------------------------------------------------------------------
(* Dates: datetime.strptime, strftime and the difference of two datetimes  *)
(* (tools/sqlite.py:115-121, 356-368).  A date string is a sequence of     *)
(* one-character strings; a datetime is a record of year, month, day and   *)
(* hour.                                                                   *)

Digits == <<"0", "1", "2", "3", "4", "5", "6", "7", "8", "9">>

IsDigit(c) == \E k \in DOMAIN Digits : Digits[k] = c

digit_value(c) == (CHOOSE k \in DOMAIN Digits : Digits[k] = c) - 1

AllDigits(s) == s # <<>> /\ \A k \in DOMAIN s : IsDigit(s[k])

\* int(s) of a string of digits
RECURSIVE number(_)
number(s) ==
    IF s = <<>> THEN 0
    ELSE number(SubSeq(s, 1, Len(s) - 1)) * 10 + digit_value(s[Len(s)])

\* str(n) of a natural number
RECURSIVE decimal(_)
decimal(n) == IF n < 10 THEN Digits[n + 1] ELSE decimal(n \div 10) \o Digits[(n % 10) + 1]

\* %m and %d of strftime: two digits
two_digits(n) == Digits[(n \div 10) + 1] \o Digits[(n % 10) + 1]

\* s.split(sep)
RECURSIVE split(_, _)
split(s, sep) ==
    IF \E k \in DOMAIN s : s[k] = sep
    THEN LET k == CHOOSE i \in DOMAIN s : s[i] = sep /\ \A j \in 1..(i - 1) : s[j] # sep
         IN << SubSeq(s, 1, k - 1) >> \o split(SubSeq(s, k + 1, Len(s)), sep)
    ELSE << s >>

is_leap(year) == year % 4 = 0 /\ (year % 100 # 0 \/ year % 400 = 0)

days_in_month(year, month) ==
    IF month = 2 THEN (IF is_leap(year) THEN 29 ELSE 28)
    ELSE IF month \in {4, 6, 9, 11} THEN 30 ELSE 31

RECURSIVE days_before_month(_, _)
days_before_month(year, month) ==
    IF month = 1 THEN 0
    ELSE days_before_month(year, month - 1) + days_in_month(year, month - 1)

days_before_year(year) ==
    LET y == year - 1 IN y * 365 + (y \div 4) - (y \div 100) + (y \div 400)

\* datetime.toordinal(): the number of the day, 1 for 0001-01-01
toordinal(dt) == days_before_year(dt.year) + days_before_month(dt.year, dt.month) + dt.day

\* The hours of dt since 0001-01-01 00:00, by which datetimes are compared
hours_of(dt) == toordinal(dt) * 24 + dt.hour

DATE_FORMAT == "%Y-%m-%d"

HOUR_FORMAT == "%Y-%m-%d %H"

ParseError == [raised |-> TRUE, year |-> 0, month |-> 0, day |-> 0, hour |-> 0]

\* The date of "%Y-%m-%d": four digits of a year from 1 on, one or two
\* digits of a month, one or two digits of a day of that month
parse_date(s, hour) ==
    LET parts == split(s, "-") IN
    IF /\ Len(parts) = 3
       /\ \A k \in 1..3 : AllDigits(parts[k])
       /\ Len(parts[1]) = 4
       /\ Len(parts[2]) \in 1..2
       /\ Len(parts[3]) \in 1..2
       /\ number(parts[1]) >= 1
       /\ number(parts[2]) \in 1..12
       /\ number(parts[3]) \in 1..days_in_month(number(parts[1]), number(parts[2]))
    THEN [raised |-> FALSE, year |-> number(parts[1]), month |-> number(parts[2]),
          day |-> number(parts[3]), hour |-> hour]
    ELSE ParseError

\* datetime.strptime(date_string, format) for the two formats of the model;
\* raised stands for the ValueError
strptime(date_string, format) ==
    IF format = DATE_FORMAT THEN parse_date(date_string, 0)
    ELSE LET halves == split(date_string, " ") IN
         IF /\ Len(halves) = 2
            /\ AllDigits(halves[2])
            /\ Len(halves[2]) \in 1..2
            /\ number(halves[2]) \in 0..23
         THEN parse_date(halves[1], number(halves[2]))
         ELSE ParseError

\* dt.strftime("%Y-%m-%d"); the years of the model have four digits
strftime(dt) == decimal(dt.year) \o "-" \o two_digits(dt.month) \o "-" \o two_digits(dt.day)

\* (dt2 - dt1).days: the whole days of the difference, rounded down
timedelta_days(dt2, dt1) == (hours_of(dt2) - hours_of(dt1)) \div 24

\* The difference without abs()
signed(n) == n

\* abs(n)
abs(n) == IF n < 0 THEN 0 - n ELSE n

----------------------------------------------------------------------------
(* get_patient_data (tools/sqlite.py:76-325)                               *)

\* An optional string argument: None, or a string (which may be empty)
NoneArg == [is_none |-> TRUE, string |-> <<>>]

Str(s) == [is_none |-> FALSE, string |-> s]

\* The truth value of an optional string: None and "" are false
truthy(arg) == ~arg.is_none /\ arg.string # <<>>

\* sep.join(strings)
RECURSIVE join(_, _)
join(strings, sep) ==
    IF strings = <<>> THEN ""
    ELSE IF Len(strings) = 1 THEN strings[1]
    ELSE strings[1] \o sep \o join(Tail(strings), sep)

\* The keys of available_tables, in the order of the dict
available_names ==
    << "demographics", "medications", "labs", "lab_tests_only",
       "imaging", "procedures", "conditions", "problem_list",
       "encounters", "allergies", "immunizations", "careplans",
       "devices" >>

\* tools/sqlite.py:129-284.  The text of each query is cut at its
\* {date_filter} (the one of demographics has none) and its white space is
\* written as single spaces; date_column is "START" when the entry has none
\* (tools/sqlite.py:306)
available_tables ==
    ("demographics" :>
        [query_head |-> "SELECT Id, BIRTHDATE, GENDER, RACE, ETHNICITY, MARITAL, ADDRESS, "
                        \o "CITY, STATE, ZIP, CAST((julianday('now') - julianday(BIRTHDATE)) / "
                        \o "365.25 AS INTEGER) AS AGE FROM patients WHERE Id = ?",
         query_tail |-> "",
         title |-> "DEMOGRAPHICS", date_filterable |-> FALSE, date_column |-> "START"]) @@
    ("medications" :>
        [query_head |-> "SELECT START, STOP, DESCRIPTION FROM medications WHERE PATIENT = ? ",
         query_tail |-> " ORDER BY START DESC",
         title |-> "MEDICATIONS", date_filterable |-> TRUE, date_column |-> "START"]) @@
    ("labs" :>
        [query_head |-> "SELECT DATE, CATEGORY, DESCRIPTION, VALUE, UNITS, TYPE FROM "
                        \o "observations WHERE PATIENT = ? ",
         query_tail |-> " ORDER BY DATE DESC",
         title |-> "LABS", date_filterable |-> TRUE, date_column |-> "DATE"]) @@
    ("lab_tests_only" :>
        [query_head |-> "SELECT DISTINCT DESCRIPTION FROM observations WHERE PATIENT = ? ",
         query_tail |-> " ORDER BY DESCRIPTION",
         title |-> "LAB TEST NAMES", date_filterable |-> TRUE, date_column |-> "DATE"]) @@
    ("imaging" :>
        [query_head |-> "SELECT DATE, BODYSITE_DESCRIPTION, MODALITY_DESCRIPTION, "
                        \o "SOP_DESCRIPTION FROM imaging_studies WHERE PATIENT = ? ",
         query_tail |-> " ORDER BY DATE DESC",
         title |-> "IMAGING", date_filterable |-> TRUE, date_column |-> "DATE"]) @@
    ("procedures" :>
        [query_head |-> "SELECT START, STOP, DESCRIPTION, CODE, SYSTEM FROM procedures WHERE "
                        \o "PATIENT = ? ",
         query_tail |-> " ORDER BY START DESC",
         title |-> "PROCEDURES", date_filterable |-> TRUE, date_column |-> "START"]) @@
    ("conditions" :>
        [query_head |-> "SELECT START, STOP, DESCRIPTION, CODE, SYSTEM FROM conditions WHERE "
                        \o "PATIENT = ? ",
         query_tail |-> " ORDER BY START DESC",
         title |-> "CONDITIONS", date_filterable |-> TRUE, date_column |-> "START"]) @@
    ("problem_list" :>
        [query_head |-> "SELECT DISTINCT DESCRIPTION FROM conditions WHERE PATIENT = ? ",
         query_tail |-> " ORDER BY DESCRIPTION",
         title |-> "PROBLEM LIST", date_filterable |-> TRUE, date_column |-> "START"]) @@
    ("encounters" :>
        [query_head |-> "SELECT START, STOP, DESCRIPTION, ENCOUNTERCLASS, ORGANIZATION, "
                        \o "PROVIDER FROM encounters WHERE PATIENT = ? ",
         query_tail |-> " ORDER BY START DESC",
         title |-> "ENCOUNTERS", date_filterable |-> TRUE, date_column |-> "START"]) @@
    ("allergies" :>
        [query_head |-> "SELECT START, STOP, DESCRIPTION, TYPE, CATEGORY, DESCRIPTION1, "
                        \o "SEVERITY1 FROM allergies WHERE PATIENT = ? ",
         query_tail |-> " ORDER BY START DESC",
         title |-> "ALLERGIES", date_filterable |-> TRUE, date_column |-> "START"]) @@
    ("immunizations" :>
        [query_head |-> "SELECT DATE, DESCRIPTION, CODE, BASE_COST FROM immunizations WHERE "
                        \o "PATIENT = ? ",
         query_tail |-> " ORDER BY DATE DESC",
         title |-> "IMMUNIZATIONS", date_filterable |-> TRUE, date_column |-> "DATE"]) @@
    ("careplans" :>
        [query_head |-> "SELECT START, STOP, DESCRIPTION, CODE FROM careplans WHERE PATIENT = ? ",
         query_tail |-> " ORDER BY START DESC",
         title |-> "CARE PLANS", date_filterable |-> TRUE, date_column |-> "START"]) @@
    ("devices" :>
        [query_head |-> "SELECT START, STOP, DESCRIPTION, CODE, UDI FROM devices WHERE PATIENT "
                        \o "= ? ",
         query_tail |-> " ORDER BY START DESC",
         title |-> "DEVICES", date_filterable |-> TRUE, date_column |-> "START"])

\* The validation of tools/sqlite.py:112-127 left out
validate_dates_unchecked(start_date, end_date) ==
    [raised |-> FALSE, filtered |-> truthy(start_date) /\ truthy(end_date),
     start |-> text(start_date.string), end |-> text(end_date.string), message |-> ""]

\* tools/sqlite.py:112-127: the outcome of the validation of the date range,
\* with the two dates formatted again by strftime
validate_dates(start_date, end_date) ==
    IF truthy(start_date) /\ truthy(end_date)
    THEN LET start_dt == strptime(start_date.string, DATE_FORMAT)
             end_dt == strptime(end_date.string, DATE_FORMAT)
         IN IF start_dt.raised \/ end_dt.raised
            THEN [raised |-> TRUE, filtered |-> FALSE, start |-> "", end |-> "",
                  message |-> "Invalid date format. Expected format: YYYY-MM-DD"]
            ELSE IF hours_of(start_dt) > hours_of(end_dt)
            THEN [raised |-> TRUE, filtered |-> FALSE, start |-> "", end |-> "",
                  message |-> "Start date cannot be after end date"]
            ELSE [raised |-> FALSE, filtered |-> TRUE, start |-> strftime(start_dt),
                  end |-> strftime(end_dt), message |-> ""]
    ELSE IF truthy(start_date) \/ truthy(end_date)
    THEN [raised |-> TRUE, filtered |-> FALSE, start |-> "", end |-> "",
          message |-> "Both start_date and end_date must be provided together"]
    ELSE [raised |-> FALSE, filtered |-> FALSE, start |-> "", end |-> "", message |-> ""]

\* `table not in available_tables` is false
is_available(table) == text(table) \in DOMAIN available_tables

\* tools/sqlite.py:304-307
date_filter_of(table_config, dates) ==
    IF dates.filtered /\ table_config.date_filterable
    THEN "AND " \o table_config.date_column \o " >= '" \o dates.start
            \o "' AND " \o table_config.date_column \o " <= '" \o dates.end \o "'"
    ELSE ""

\* tools/sqlite.py:310: table_config["query"].format(date_filter=date_filter)
table_query(table_config, dates) ==
    table_config.query_head \o date_filter_of(table_config, dates) \o table_config.query_tail

\* The block of tools/sqlite.py:297 titled by the name as it was requested
not_found_block_as_requested(table) ==
    "== " \o text(table) \o " ==\nTable '" \o text(table)
        \o "' not found. Available tables: " \o join(available_names, ", ")

\* tools/sqlite.py:295-299: the block of a name that is no key
not_found_block(table) ==
    "== " \o text(upper(table)) \o " ==\nTable '" \o text(table)
        \o "' not found. Available tables: " \o join(available_names, ", ")

\* tools/sqlite.py:312-323: the block of a table, answer being what the
\* store answers to its query
table_block(table, answer) ==
    IF ~is_available(table) THEN not_found_block(table)
    ELSE LET title == available_tables[text(table)].title IN
         IF answer = "rows" THEN "== " \o title \o " ==\n" \o ROWS_TEXT
         ELSE IF answer = "empty" THEN "== " \o title \o " ==\nNo " \o text(table) \o " found."
         ELSE "== " \o title \o " ==\nError retrieving " \o text(table) \o ": " \o STORE_ERROR

\* The statements the loop of tools/sqlite.py:294 executes, in order
RECURSIVE table_statements(_, _, _, _)
table_statements(patient_id, tables, dates, answers) ==
    IF tables = <<>> THEN <<>>
    ELSE LET rest == table_statements(patient_id, Tail(tables), dates, Tail(answers)) IN
         IF is_available(Head(tables))
         THEN << Statement(table_query(available_tables[text(Head(tables))], dates),
                           << patient_id >>, Head(answers)) >> \o rest
         ELSE rest

\* get_patient_data(patient_id, tables, start_date, end_date, db_path) on the
\* files fs, answers[k] being what the store answers to the query of
\* tables[k]: the outcome of the call, the connections it opened, the
\* statements it executed and the files after it
get_patient_data(patient_id, tables, start_date, end_date, db_path, fs, answers) ==
    LET dates == validate_dates(start_date, end_date)
        before_store(outcome) ==
            [outcome |-> outcome, opened |-> <<>>, executed |-> <<>>, files |-> fs]
    IN
    IF dates.raised THEN before_store(Raises(dates.message))
    ELSE IF tables = <<>>
    THEN before_store(Returns("No tables specified. Available tables: "
                                \o join(available_names, ", ")))
    ELSE IF connect_raises(db_path, fs) THEN before_store(Raises(CONNECT_ERROR))
    ELSE [outcome |-> Returns(join([k \in 1..Len(tables) |->
                                        table_block(tables[k], answers[k])], "\n\n")),
          opened |-> << Connection(db_path, connect_mode) >>,
          executed |-> table_statements(patient_id, tables, dates, answers),
          files |-> files_after_connect(db_path, fs)]

\* The names requested in the model: a table without date filter, two with
\* (on the columns DATE and START), and a name that is no key
TableNames ==
    { <<"d", "e", "m", "o", "g", "r", "a", "p", "h", "i", "c", "s">>,
      <<"l", "a", "b", "s">>,
      <<"m", "e", "d", "i", "c", "a", "t", "i", "o", "n", "s">>,
      <<"b", "o", "g", "u", "s">> }

MaxTables == 2

RECURSIVE TableLists(_)
TableLists(n) ==
    IF n = 0 THEN { <<>> }
    ELSE TableLists(n - 1) \cup
         { Append(l, name) : l \in { x \in TableLists(n - 1) : Len(x) = n - 1 },
                             name \in TableNames }

\* The date strings of the model: two dates, a date without leading zeros,
\* a month that does not exist, another format, and a date followed by SQL
DATE_A == <<"2", "0", "2", "4", "-", "0", "1", "-", "0", "1">>
DATE_B == <<"2", "0", "2", "4", "-", "0", "1", "-", "1", "0">>
DATE_SHORT == <<"2", "0", "2", "4", "-", "1", "-", "5">>
DATE_MONTH13 == <<"2", "0", "2", "4", "-", "1", "3", "-", "0", "1">>
DATE_SLASHES == <<"0", "1", "/", "1", "0", "/", "2", "0", "2", "4">>
DATE_SQL == <<"2", "0", "2", "4", "-", "0", "1", "-", "1", "0", "'", " ", "O", "R", " ", "'", "1", "'", "=", "'", "1">>

\* The pairs of start_date and end_date of the model
DateRanges ==
    { << NoneArg, NoneArg >>,
      << Str(<<>>), Str(<<>>) >>,
      << Str(DATE_A), NoneArg >>,
      << NoneArg, Str(DATE_B) >>,
      << Str(<<>>), Str(DATE_B) >>,
      << Str(DATE_A), Str(DATE_B) >>,
      << Str(DATE_B), Str(DATE_A) >>,
      << Str(DATE_A), Str(DATE_A) >>,
      << Str(DATE_SHORT), Str(DATE_B) >>,
      << Str(DATE_MONTH13), Str(DATE_B) >>,
      << Str(DATE_A), Str(DATE_SLASHES) >>,
      << Str(DATE_A), Str(DATE_SQL) >> }

PatientIds == { "p1", "p2' OR '1'='1" }

----------------------------------------------------------------------------
(* compare_dates (tools/sqlite.py:328-372)                                 *)

\* A call that returns a dict
ReturnsDict(d) == [kind |-> "return_dict", text |-> "", dict |-> d]

\* str(e) of the ValueError of strptime
STRPTIME_ERROR == "<strptime error>"

\* compare_dates(date1, date2, date_format): the outcome of the call
compare_dates(date1, date2, date_format) ==
    LET dt1 == strptime(date1, date_format)
        dt2 == strptime(date2, date_format)
    IN
    IF dt1.raised \/ dt2.raised
    THEN Raises("Invalid date format. Expected format: " \o date_format
                    \o ". Error: " \o STRPTIME_ERROR)
    ELSE ReturnsDict([date1_earlier |-> hours_of(dt1) < hours_of(dt2),
                      date2_earlier |-> hours_of(dt2) < hours_of(dt1),
                      dates_equal |-> hours_of(dt1) = hours_of(dt2),
                      difference_days |-> abs(timedelta_days(dt2, dt1)),
                      date1_parsed |-> strftime(dt1),
                      date2_parsed |-> strftime(dt2)])

\* More date strings of the model: the days around the end of a February
\* of a leap year, and two datetimes twelve hours apart
DATE_FEB28 == <<"2", "0", "2", "4", "-", "0", "2", "-", "2", "8">>
DATE_MAR01 == <<"2", "0", "2", "4", "-", "0", "3", "-", "0", "1">>
HOUR_NOON == <<"2", "0", "2", "4", "-", "0", "1", "-", "0", "9", " ", "1", "2">>
HOUR_MIDNIGHT == <<"2", "0", "2", "4", "-", "0", "1", "-", "1", "0", " ", "0", "0">>

CompareStrings ==
    { DATE_A, DATE_B, DATE_SHORT, DATE_MONTH13, DATE_SLASHES, DATE_FEB28, DATE_MAR01,
      HOUR_NOON, HOUR_MIDNIGHT }

----------------------------------------------------------------------------
(* get_db_schema (tools/sqlite.py:44-73)                                   *)

CATALOG_QUERY == "SELECT name FROM sqlite_master WHERE type='table';"

\* The text returned for a store of one table, patients, with one column
SCHEMA_TEXT ==
    "--- Schema for table patients ---\n"
        \o "Column: Id | Type: TEXT | Not Null: 0 | Default: None | PK: 0\n"

\* get_db_schema(db_path) on the files fs, answer being what the store
\* answers to the query of its catalog: rows (here the table patients), no
\* row, or a failure, which no handler catches
get_db_schema(db_path, fs, answer) ==
    IF connect_raises(db_path, fs)
    THEN [outcome |-> Raises(CONNECT_ERROR), opened |-> <<>>, executed |-> <<>>, files |-> fs]
    ELSE [outcome |->
              IF answer = "rows" THEN Returns(SCHEMA_TEXT)
              ELSE IF answer = "empty" THEN Returns("No tables found.")
              ELSE Raises(STORE_ERROR),
          opened |-> << Connection(db_path, connect_mode) >>,
          executed |->
              IF answer = "rows"
              THEN << Statement(CATALOG_QUERY, <<>>, answer),
                      Statement("PRAGMA table_info(patients)", <<>>, "rows") >>
              ELSE << Statement(CATALOG_QUERY, <<>>, answer) >>,
          files |-> files_after_connect(db_path, fs)]

----------------------------------------------------------------------------
(* execute_function of chat_browser.py (chat_browser.py:132-154)           *)

browser_FUNCTION_MAP == {"query_db", "get_db_schema", "get_patient_data", "compare_dates"}

\* json.dumps of a bool
json_bool(b) == IF b THEN "true" ELSE "false"

\* json.dumps of an int
json_int(n) == IF n < 0 THEN "-" \o decimal(0 - n) ELSE decimal(n)

\* json.dumps(result, indent=2) of the dict compare_dates returns
json_dumps(result) ==
    "{\n  \"date1_earlier\": " \o json_bool(result.date1_earlier)
        \o ",\n  \"date2_earlier\": " \o json_bool(result.date2_earlier)
        \o ",\n  \"dates_equal\": " \o json_bool(result.dates_equal)
        \o ",\n  \"difference_days\": " \o json_int(result.difference_days)
        \o ",\n  \"date1_parsed\": \"" \o result.date1_parsed
        \o "\",\n  \"date2_parsed\": \"" \o result.date2_parsed \o "\"\n}"

\* execute_function(function_name, arguments) of chat_browser.py, outcome
\* being what func(**arguments) does
browser_execute_function(function_name, outcome) ==
    IF function_name \notin browser_FUNCTION_MAP
    THEN [raised |-> FALSE, value |-> "Error: Function " \o function_name \o " not found."]
    ELSE IF outcome.kind = "raise"
    THEN [raised |-> FALSE,
          value |-> "Error executing " \o function_name \o ": " \o outcome.text]
    ELSE IF outcome.kind = "return_dict"
    THEN [raised |-> FALSE, value |-> json_dumps(outcome.dict)]
    ELSE [raised |-> FALSE, value |-> outcome.text]

\* What the two execute_function make of one call
Dispatched(function_name, outcome) ==
    [chat |-> execute_function(function_name, outcome),
     browser |-> browser_execute_function(function_name, outcome)]

----------------------------------------------------------------------------
(* execute_tool of chat_browser.py (chat_browser.py:162-169)               *)

\* The values of the argument documents: the dict json.loads returns
ArgumentValues ==
    (DocEmpty :> [none |-> ""]) @@
    (DocSelect :> [query |-> <<"S", "E", "L", "E", "C", "T", " ", "1">>]) @@
    (DocQuery :> [query |-> <<"D", "R", "O", "P", " ", "T", "A", "B", "L", "E", " ", "t">>]) @@
    (DocDates :> [date1 |-> DATE_B, date2 |-> DATE_A]) @@
    (DocPatient :> [patient_id |-> "p1", tables |-> << <<"l", "a", "b", "s">> >>])

\* The parameters of the four functions (tools/sqlite.py:9, 44, 76-82,
\* 328-333)
parameters(function_name) ==
    IF function_name = "query_db" THEN {"query", "db_path"}
    ELSE IF function_name = "get_db_schema" THEN {"db_path"}
    ELSE IF function_name = "get_patient_data"
    THEN {"patient_id", "tables", "start_date", "end_date", "db_path"}
    ELSE {"date1", "date2", "date_format", "db_path"}

\* Those without a default
required(function_name) ==
    IF function_name = "query_db" THEN {"query"}
    ELSE IF function_name = "get_db_schema" THEN {}
    ELSE IF function_name = "get_patient_data" THEN {"patient_id", "tables"}
    ELSE {"date1", "date2"}

\* str(e) of the exception of json.loads
JSON_ERROR == "<JSONDecodeError>"

\* func(**arguments) of chat_browser.py:149 for the dict of the document
\* arguments_json, on the files fs, answer being what the store answers: the
\* outcome of the call, the connections it opened, the statements it
\* executed and the files after it.  No document of the model names db_path,
\* date_format, start_date or end_date: they have their defaults.
browser_call(function_name, arguments_json, fs, answer) ==
    LET arguments == json_loads(arguments_json).value
        values == ArgumentValues[arguments_json]
        type_error(message) ==
            [outcome |-> Raises(message), opened |-> <<>>, executed |-> <<>>, files |-> fs]
    IN
    IF ~arguments.is_dict THEN type_error("argument after ** must be a mapping")
    ELSE IF ~(arguments.keys \subseteq parameters(function_name))
    THEN type_error("got an unexpected keyword argument")
    ELSE IF ~(required(function_name) \subseteq arguments.keys)
    THEN type_error("missing required positional argument")
    ELSE IF function_name = "query_db"
    THEN query_db(values.query, DB_PATH, fs, answer)
    ELSE IF function_name = "get_db_schema"
    THEN get_db_schema(DB_PATH, fs, answer)
    ELSE IF function_name = "get_patient_data"
    THEN get_patient_data(values.patient_id, values.tables, NoneArg, NoneArg, DB_PATH,
                          fs, [k \in 1..Len(values.tables) |-> answer])
    ELSE [outcome |-> compare_dates(values.date1, values.date2, DATE_FORMAT),
          opened |-> <<>>, executed |-> <<>>, files |-> fs]

\* the handler of chat_browser.py:168 reached by the failures of the function
execute_tool_reports_failures(function_name, arguments_json, outcome) ==
    IF json_loads(arguments_json).raised
    THEN [raised |-> FALSE, value |-> [success |-> FALSE, error |-> JSON_ERROR]]
    ELSE IF outcome.kind = "raise"
    THEN [raised |-> FALSE, value |-> [success |-> FALSE, error |-> outcome.text]]
    ELSE [raised |-> FALSE,
          value |-> [success |-> TRUE,
                     result |-> browser_execute_function(function_name, outcome).value]]

\* execute_tool(function_name, arguments_json), outcome being what
\* func(**arguments) does: the dict that json.dumps writes.  execute_function
\* returns a str (chat_browser.py:143, 151-154), which str(result) leaves as
\* it is.
execute_tool(function_name, arguments_json, outcome) ==
    IF json_loads(arguments_json).raised
    THEN [raised |-> FALSE, value |-> [success |-> FALSE, error |-> JSON_ERROR]]
    ELSE LET result == browser_execute_function(function_name, outcome) IN
         IF result.raised
         THEN [raised |-> FALSE, value |-> [success |-> FALSE, error |-> result.value]]
         ELSE [raised |-> FALSE, value |-> [success |-> TRUE, result |-> result.value]]

\* The names and argument texts of the calls of execute_tool in the model
ToolNames == browser_FUNCTION_MAP \cup {"bogus"}

ToolArgumentTexts ==
    {"", DocTruncated, DocList, DocEmpty, DocSelect, DocQuery, DocDates, DocPatient}

----------------------------------------------------------------------------
(* The tool functions called one after the other, each call whole: a call  *)
(* is recorded with its outcome, the caller takes the outcome, and the     *)
(* next call is made on the files the calls before left                    *)

\* query_db(query, db_path) is called
QueryDb ==
    /\ tool_request = NoRequest
    /\ \E query \in Queries, db_path \in DbPaths, answer \in StoreAnswers :
        LET r == query_db(query, db_path, files, answer) IN
        /\ tool_request' = [function |-> "query_db", query |-> query, db_path |-> db_path]
        /\ tool_outcome' = r.outcome
        /\ opened' = r.opened
        /\ executed' = r.executed
        /\ files' = r.files
        /\ UNCHANGED <<unclosed, envelope>>
        /\ dispatched' = Dispatched("query_db", r.outcome)
        /\ UNCHANGED loop_vars

\* get_db_schema(db_path) is called
GetDbSchema ==
    /\ tool_request = NoRequest
    /\ \E db_path \in DbPaths, answer \in StoreAnswers :
        LET r == get_db_schema(db_path, files, answer) IN
        /\ tool_request' = [function |-> "get_db_schema", db_path |-> db_path]
        /\ tool_outcome' = r.outcome
        /\ opened' = r.opened
        /\ executed' = r.executed
        /\ files' = r.files
        /\ UNCHANGED <<unclosed, envelope>>
        /\ dispatched' = Dispatched("get_db_schema", r.outcome)
        /\ UNCHANGED loop_vars

\* get_patient_data(patient_id, tables, start_date, end_date, db_path) is
\* called
GetPatientData ==
    /\ tool_request = NoRequest
    /\ \E patient_id \in PatientIds, tables \in TableLists(MaxTables),
          range \in DateRanges, db_path \in DbPaths :
      \E answers \in [1..Len(tables) -> StoreAnswers] :
        LET r == get_patient_data(patient_id, tables, range[1], range[2],
                                  db_path, files, answers)
        IN
        /\ \A k \in 1..Len(tables) : ~is_available(tables[k]) => answers[k] = "rows"
        /\ tool_request' = [function |-> "get_patient_data", patient_id |-> patient_id,
                            tables |-> tables, start_date |-> range[1],
                            end_date |-> range[2], db_path |-> db_path]
        /\ tool_outcome' = r.outcome
        /\ opened' = r.opened
        /\ executed' = r.executed
        /\ files' = r.files
        /\ UNCHANGED <<unclosed, envelope>>
        /\ dispatched' = Dispatched("get_patient_data", r.outcome)
        /\ UNCHANGED loop_vars

\* compare_dates(date1, date2, date_format) is called
CompareDates ==
    /\ tool_request = NoRequest
    /\ \E date1 \in CompareStrings, date2 \in CompareStrings,
          date_format \in {DATE_FORMAT, HOUR_FORMAT} :
        /\ tool_request' = [function |-> "compare_dates", date1 |-> date1,
                            date2 |-> date2, date_format |-> date_format]
        /\ tool_outcome' = compare_dates(date1, date2, date_format)
        /\ opened' = <<>>
        /\ executed' = <<>>
        /\ dispatched' = Dispatched("compare_dates", tool_outcome')
        /\ UNCHANGED <<files, unclosed, envelope, loop_vars>>

\* A name that is no function is asked for: no function is called
UnknownFunction ==
    /\ tool_request = NoRequest
    /\ tool_request' = [function |-> "bogus"]
    /\ tool_outcome' = NotCalled
    /\ opened' = <<>>
    /\ executed' = <<>>
    /\ dispatched' = Dispatched("bogus", NotCalled)
    /\ UNCHANGED <<files, unclosed, envelope, loop_vars>>

\* execute_tool(function_name, arguments_json) is called
ExecuteTool ==
    /\ tool_request = NoRequest
    /\ \E function_name \in ToolNames, arguments_json \in ToolArgumentTexts,
          answer \in StoreAnswers :
        LET called == ~json_loads(arguments_json).raised
                          /\ function_name \in browser_FUNCTION_MAP
            r == IF called THEN browser_call(function_name, arguments_json, files, answer)
                 ELSE [outcome |-> NotCalled, opened |-> <<>>, executed |-> <<>>,
                       files |-> files]
        IN
        /\ tool_request' = [function |-> "execute_tool", function_name |-> function_name,
                            arguments_json |-> arguments_json]
        /\ tool_outcome' = r.outcome
        /\ opened' = r.opened
        /\ executed' = r.executed
        /\ files' = r.files
        /\ envelope' = execute_tool(function_name, arguments_json, r.outcome)
        /\ dispatched' = IF json_loads(arguments_json).raised THEN NoDispatch
                         ELSE Dispatched(function_name, r.outcome)
        /\ UNCHANGED <<unclosed, loop_vars>>

\* The end of "with sqlite3.connect(db_path) as conn" (tools/sqlite.py:36-41,
\* 55-73, 293-323): the connection commits or rolls back and is not closed;
\* no function calls conn.close().  The connection is closed when its object
\* is finalized: at the return of the call in a build that counts
\* references, at a later collection in one that does not.
unclosed_after_return(left_open, opened_by_call, finalized) ==
    left_open \/ (~finalized /\ opened_by_call # <<>>)

\* The caller has the outcome of the call (chat.py:75, chat_browser.py:149)
ToolReturns ==
    /\ tool_request # NoRequest
    /\ \E finalized \in BOOLEAN :
         unclosed' = unclosed_after_return(unclosed, opened, finalized)
    /\ tool_request' = NoRequest
    /\ tool_outcome' = NotCalled
    /\ opened' = <<>>
    /\ executed' = <<>>
    /\ envelope' = NoEnvelope
    /\ dispatched' = NoDispatch
    /\ UNCHANGED <<files, loop_vars>>

NextTools ==
    \/ QueryDb
    \/ GetDbSchema
    \/ GetPatientData
    \/ CompareDates
    \/ UnknownFunction
    \/ ExecuteTool
    \/ ToolReturns

SpecTools == Init /\ [][NextTools]_vars

----------------------------------------------------------------------------
(* Properties of query_db                                                  *)

IsWordChar(c) ==
    \/ \E k \in DOMAIN LowerLetters : c = LowerLetters[k] \/ c = UpperLetters[k]
    \/ c \in {"0", "1", "2", "3", "4", "5", "6", "7", "8", "9", "_"}

\* keyword (in upper case) stands in query as a word of its own, in any case
IsStandaloneToken(query, keyword) ==
    \E i \in 1..(Len(query) - Len(keyword) + 1) :
        LET last == i + Len(keyword) - 1 IN
        /\ upper(SubSeq(query, i, last)) = keyword
        /\ i = 1 \/ ~IsWordChar(query[i - 1])
        /\ last = Len(query) \/ ~IsWordChar(query[last + 1])

HasStandaloneKeyword(query) ==
    \E k \in DOMAIN dangerous_keywords : IsStandaloneToken(query, dangerous_keywords[k])

QueryDbCalled == tool_request.function = "query_db"

\* C11: a call of query_db whose query holds a keyword of dangerous_keywords
\* as a word of its own, in any case, is rejected (an exception is raised)
\* and has opened no connection and executed no statement.
C11_KeywordRejectedBeforeStore ==
    (QueryDbCalled /\ HasStandaloneKeyword(tool_request.query))
        => /\ tool_outcome.kind = "raise"
           /\ opened = <<>>
           /\ executed = <<>>

\* A query that starts with SELECT and holds Update as a word of its own was
\* rejected for this keyword, on a store that exists.
C11_Witness ==
    /\ QueryDbCalled
    /\ tool_request.db_path = DB_PATH
    /\ startswith(upper(strip(tool_request.query)), SELECT)
    /\ IsStandaloneToken(tool_request.query, <<"U", "P", "D", "A", "T", "E">>)
    /\ tool_outcome = Raises("Query contains forbidden keyword: UPDATE. This is a read-only function.")

\* C12: every connection a call of query_db opens is in read-only mode, and
\* the database files after the call are the files before it, holding what
\* they held.
C12_StoreOpenedReadOnly ==
    [][ (tool_request'.function = "query_db")
            => /\ \A k \in DOMAIN opened' : opened'[k].mode = "ro"
               /\ files' = files ]_vars

StartsWithSelect(query) == startswith(upper(strip(query)), SELECT)

\* C13: a call of query_db whose query starts with SELECT and holds no
\* keyword of dangerous_keywords as a word of its own (a keyword inside a
\* longer word, created_at or last_updated, does not count) is not rejected:
\* nothing is raised, and on a store that can be opened the query is
\* executed.
C13_KeywordInsideWordAccepted ==
    (QueryDbCalled /\ StartsWithSelect(tool_request.query)
                   /\ ~HasStandaloneKeyword(tool_request.query))
        => /\ tool_outcome.kind = "return"
           /\ tool_request.db_path # BAD_PATH
                => /\ Len(executed) = 1
                   /\ executed[1].text = text(tool_request.query)

StartsWithWith(query) == startswith(upper(strip(query)), <<"W", "I", "T", "H">>)

HasNoKeyword(query) ==
    \A k \in DOMAIN dangerous_keywords : ~contains(upper(query), dangerous_keywords[k])

\* C14: a call of query_db whose query is a common table expression (it
\* starts with WITH) and holds no keyword of dangerous_keywords anywhere is
\* accepted as a query that starts with SELECT is: nothing is raised, and on
\* a store that can be opened the query is executed.
C14_CommonTableExpressionAccepted ==
    (QueryDbCalled /\ StartsWithWith(tool_request.query)
                   /\ HasNoKeyword(tool_request.query))
        => /\ tool_outcome.kind = "return"
           /\ tool_request.db_path # BAD_PATH
                => /\ Len(executed) = 1
                   /\ executed[1].text = text(tool_request.query)

\* C15 as stated: no call of query_db raises.
C15_NoExceptionEscapes ==
    QueryDbCalled => tool_outcome.kind = "return"

ValidationMessages ==
    { "Only SELECT queries are allowed. This is a read-only function." } \cup
    { "Query contains forbidden keyword: " \o text(dangerous_keywords[k])
          \o ". This is a read-only function." : k \in DOMAIN dangerous_keywords }

\* C15: the only exception a call of query_db raises is the rejection of
\* the query by the validation, before the store is opened, and a query that
\* starts with SELECT and holds no keyword of dangerous_keywords raises
\* nothing; a failure to open the store, a failure of the statement and a
\* success are returned as text, and a statement that gives no row is
\* answered by "No results found.".
C15_OnlyValidationRaises ==
    QueryDbCalled =>
        /\ tool_outcome.kind \in {"raise", "return"}
        /\ tool_outcome.kind = "raise"
              => /\ tool_outcome.text \in ValidationMessages
                 /\ opened = <<>>
                 /\ executed = <<>>
        /\ (StartsWithSelect(tool_request.query) /\ HasNoKeyword(tool_request.query))
              => tool_outcome.kind = "return"
        /\ (tool_outcome.kind = "return" /\ tool_request.db_path = BAD_PATH)
              => /\ executed = <<>>
                 /\ tool_outcome.text = "Error executing query: " \o CONNECT_ERROR
        /\ (tool_outcome.kind = "return" /\ tool_request.db_path # BAD_PATH)
              => /\ Len(executed) = 1
                 /\ executed[1].answer = "empty" => tool_outcome.text = "No results found."
                 /\ executed[1].answer = "error"
                        => tool_outcome.text = "Error executing query: " \o STORE_ERROR
                 /\ executed[1].answer = "rows" => tool_outcome.text = ROWS_TEXT

\* A query was executed, the store answered no row, and the call returned
\* "No results found."
C15_Witness ==
    /\ QueryDbCalled
    /\ Len(executed) = 1
    /\ executed[1].answer = "empty"
    /\ tool_outcome = Returns("No results found.")

----------------------------------------------------------------------------
(* Properties of get_patient_data                                          *)

PatientDataCalled == tool_request.function = "get_patient_data"

\* The dates of the model that are dates, from the earliest to the latest
DatesInOrder == << DATE_A, DATE_SHORT, DATE_B >>

IsDate(s) == \E k \in DOMAIN DatesInOrder : DatesInOrder[k] = s

PlaceOf(s) == CHOOSE k \in DOMAIN DatesInOrder : DatesInOrder[k] = s

\* A bound is given when it is a string that is not empty
Given(arg) == ~arg.is_none /\ Len(arg.string) > 0

DateRangeMessages ==
    { "Invalid date format. Expected format: YYYY-MM-DD",
      "Start date cannot be after end date",
      "Both start_date and end_date must be provided together" }

RejectedForDates == tool_outcome.kind = "raise" /\ tool_outcome.text \in DateRangeMessages

\* The requested names that are tables, in the order of the request
KnownTables(tables) == SelectSeq(tables, is_available)

\* C16: a call of get_patient_data with exactly one bound given, with a
\* bound that is no date, or with a start later than the end, is rejected for
\* its date range and has opened no connection and executed no statement; a
\* call with two dates, the start not later than the end, and a call without
\* bounds are not rejected for their date range, and the call without bounds
\* executes, on a store that can be opened, the query of every requested
\* table without a date predicate.
C16_DateRangeDecidedBeforeStore ==
    PatientDataCalled =>
        LET start == tool_request.start_date
            end == tool_request.end_date
            both == Given(start) /\ Given(end)
            neither == ~Given(start) /\ ~Given(end)
            in_order == /\ both
                        /\ IsDate(start.string)
                        /\ IsDate(end.string)
                        /\ PlaceOf(start.string) <= PlaceOf(end.string)
            known == KnownTables(tool_request.tables)
        IN
        /\ (~neither /\ ~in_order)
              => RejectedForDates /\ opened = <<>> /\ executed = <<>>
        /\ (neither \/ in_order) => ~RejectedForDates
        /\ (neither /\ tool_request.db_path # BAD_PATH)
              => /\ Len(executed) = Len(known)
                 /\ \A k \in DOMAIN known :
                        executed[k].text =
                            available_tables[text(known[k])].query_head
                                \o available_tables[text(known[k])].query_tail

\* A call for labs with the start 2024-01-10 and the end 2024-01-01 on the
\* default store was rejected: the start is after the end.
C16_Witness ==
    /\ PatientDataCalled
    /\ tool_request.tables = << <<"l", "a", "b", "s">> >>
    /\ tool_request.start_date = Str(DATE_B)
    /\ tool_request.end_date = Str(DATE_A)
    /\ tool_request.db_path = DB_PATH
    /\ tool_outcome = Raises("Start date cannot be after end date")
    /\ executed = <<>>

\* The number of names among the first k of tables that are tables
RECURSIVE KnownUpTo(_, _)
KnownUpTo(tables, k) ==
    IF k = 0 THEN 0
    ELSE KnownUpTo(tables, k - 1) + (IF is_available(tables[k]) THEN 1 ELSE 0)

NAMES_LISTED ==
    "demographics, medications, labs, lab_tests_only, imaging, procedures, conditions, problem_list, encounters, allergies, immunizations, careplans, devices"

\* The block expected for the k-th requested name, the answer of the store
\* to its query being the one recorded with the statement
ExpectedBlock(k) ==
    LET name == text(tool_request.tables[k])
        answer == executed[KnownUpTo(tool_request.tables, k)].answer
        title == IF name = "demographics" THEN "DEMOGRAPHICS"
                 ELSE IF name = "labs" THEN "LABS" ELSE "MEDICATIONS"
    IN
    IF name = "bogus"
    THEN "== BOGUS ==\nTable 'bogus' not found. Available tables: " \o NAMES_LISTED
    ELSE IF answer = "rows" THEN "== " \o title \o " ==\n" \o ROWS_TEXT
    ELSE IF answer = "empty" THEN "== " \o title \o " ==\nNo " \o name \o " found."
    ELSE "== " \o title \o " ==\nError retrieving " \o name \o ": " \o STORE_ERROR

\* C17: a call of get_patient_data for a list of names that is not empty
\* raises only for its date range or because the store cannot be opened;
\* when it returns, it has executed one query for each requested name that
\* is a table, in the order of the request, and the text returned is one
\* block for each requested name, repeated names included, in the order of
\* the request, joined by a blank line: for a name that is no table the "not
\* found" block titled by the name in upper case, for a table whose query
\* failed the diagnostic of that table, the blocks of the other names being
\* what they are without the failure.
C17_OneBlockPerRequestedName ==
    (PatientDataCalled /\ tool_request.tables # <<>>) =>
        /\ tool_outcome.kind = "raise"
              => tool_outcome.text \in DateRangeMessages \cup {CONNECT_ERROR}
        /\ tool_outcome.kind = "return"
              => /\ Len(executed) = Len(KnownTables(tool_request.tables))
                 /\ tool_outcome.text =
                        join([k \in DOMAIN tool_request.tables |-> ExpectedBlock(k)], "\n\n")

\* A call for bogus and labs, in this order, whose query of labs failed,
\* returned the "not found" block of bogus, a blank line, and the diagnostic
\* of labs.
C17_Witness ==
    /\ PatientDataCalled
    /\ tool_request.tables = << <<"b", "o", "g", "u", "s">>, <<"l", "a", "b", "s">> >>
    /\ Len(executed) = 1
    /\ executed[1].answer = "error"
    /\ tool_outcome =
          Returns("== BOGUS ==\nTable 'bogus' not found. Available tables: " \o NAMES_LISTED
                    \o "\n\n== LABS ==\nError retrieving labs: " \o STORE_ERROR)

DateFilterGiven(start_date, end_date) == Given(start_date) /\ Given(end_date)

\* C18: the text of each query a call of get_patient_data executes is the
\* text the same call executes with any other date range that is accepted
\* and that is, as the range of the call, given or not given (the text
\* depends on the table and on whether the filter applies, not on the
\* bounds), and a query with a date filter has the patient and the two
\* bounds as its bound parameter values.
C18_DateBoundsAreParameters ==
    (PatientDataCalled /\ tool_outcome.kind = "return") =>
        \A k \in DOMAIN executed :
            /\ \A range \in DateRanges :
                   LET other == get_patient_data(tool_request.patient_id, tool_request.tables,
                                    range[1], range[2], tool_request.db_path, files,
                                    [j \in DOMAIN tool_request.tables |-> "rows"])
                   IN (/\ other.outcome.kind = "return"
                       /\ DateFilterGiven(range[1], range[2])
                            <=> DateFilterGiven(tool_request.start_date, tool_request.end_date))
                        => other.executed[k].text = executed[k].text
            /\ (/\ DateFilterGiven(tool_request.start_date, tool_request.end_date)
                /\ available_tables[text(KnownTables(tool_request.tables)[k])].date_filterable)
                 => Len(executed[k].params) = 3

----------------------------------------------------------------------------
(* Properties of compare_dates                                             *)

CompareDatesCalled == tool_request.function = "compare_dates"

\* The days from the first to the second of two dates of the model, the
\* first not later than the second
DaysBetween ==
    { << DATE_A, DATE_SHORT, 4 >>, << DATE_A, DATE_B, 9 >>, << DATE_SHORT, DATE_B, 5 >>,
      << DATE_B, DATE_FEB28, 49 >>, << DATE_FEB28, DATE_MAR01, 2 >>,
      << DATE_A, DATE_MAR01, 60 >> }

Flag(b) == IF b THEN 1 ELSE 0

----------------------------------------------------------------------------
(* Properties of the two execute_function                                  *)

NotFoundText(function_name) == "Error: Function " \o function_name \o " not found."

\* C20: for every call, execute_function of chat.py and execute_function of
\* chat_browser.py return the same result, and both resolve the names
\* query_db, get_db_schema, get_patient_data and compare_dates: neither
\* answers a call of one of them by the text that the function is not found.
C20_DispatchersAgree ==
    tool_request # NoRequest =>
        /\ dispatched.chat = dispatched.browser
        /\ tool_request.function
                \in {"query_db", "get_db_schema", "get_patient_data", "compare_dates"}
              => /\ dispatched.chat.value # NotFoundText(tool_request.function)
                 /\ dispatched.browser.value # NotFoundText(tool_request.function)

----------------------------------------------------------------------------
(* One turn of chat_loop under fairness: chat_loop from chat.py:123 to     *)
(* chat.py:236 after the first user message.  Every step that can be taken *)
(* is taken in the end (the completion call, the stream and the tools      *)
(* return), and the response of the completion call number MaxCompletions  *)
(* carries no tool call                                                    *)

InitLive ==
    /\ ToolsIdle
    /\ pc = "create"
    /\ messages = << Message("system", SYSTEM_PROMPT, <<>>, ""),
                     Message("user", <<"h", "i">>, <<>>, "") >>
    /\ user_input = <<"h", "i">>
    /\ assistant_message = EmptyAssistantMessage
    /\ api_message = NoMessage
    /\ tc_pos = 0
    /\ error = ""
    /\ last_outcome = NotCalled
    /\ completions = 0
    /\ nchunks = 0
    /\ deltas_seen = <<>>

\* A chunk of the stream is merged; the last response has no tool call
StreamChunkLive ==
    \E chunk \in LoopChunks :
        /\ completions = MaxCompletions => chunk.tool_calls = <<>>
        /\ ConsumeChunk(chunk, MaxChunks)
        /\ UNCHANGED deltas_seen

NextLive ==
    \/ CreateStream
    \/ CreateFails
    \/ StreamChunkLive
    \/ StreamFails
    \/ StreamEnd
    \/ DispatchToolCall

SpecLive == InitLive /\ [][NextLive]_vars /\ WF_vars(NextLive)

----------------------------------------------------------------------------
(* Properties of the turn                                                  *)

NumAssistantMessages(msgs) ==
    Cardinality({k \in 1..Len(msgs) : msgs[k].role = "assistant"})

\* C21: a turn of chat_loop ends: from every point of the turn the loop
\* comes to wait for user input; and the turn has made one completion call
\* for the response it is reading or that failed and one for each response
\* it has appended, so one for each round of tool calls, up to the last
\* completion call the model allows.
C21_TurnEnds ==
    /\ (pc \in {"create", "stream", "dispatch"}) ~> (pc = "input")
    /\ [](completions = NumAssistantMessages(messages)
                          + (IF pc = "stream" \/ error = "transport" THEN 1 ELSE 0))

\* The turn has ended after MaxCompletions completion calls, each of which
\* returned a response: all but the last were rounds of tool calls.
C21_Witness ==
    /\ pc = "input"
    /\ error = ""
    /\ completions = MaxCompletions
    /\ NumAssistantMessages(messages) = MaxCompletions
    /\ Last(messages).role = "assistant"
    /\ messages[3].tool_calls # <<>>

----------------------------------------------------------------------------
(* Properties of the merge of one delta                                    *)

\* The accumulator of one index before it exists is the one chat.py:154-158
\* appends
AccumulatorAt(tool_calls, index) ==
    IF index < Len(tool_calls) THEN tool_calls[index + 1] ELSE EmptyToolCall

\* The argument fragment a delta carries, "" when it carries no function
ArgumentFragment(d) == IF d.function.present THEN d.function.arguments ELSE ""

\* The name fragment a delta carries, "" when it carries no function
NameFragment(d) == IF d.function.present THEN d.function.name ELSE ""

\* One delta with an index has been merged in this step
DeltaMerged ==
    /\ Len(deltas_seen') = Len(deltas_seen) + 1
    /\ Last(deltas_seen').index # NoIndex

\* C22: in every step that merges a delta, the id and the name of the
\* accumulator of the delta's index are replaced only by a non-empty fragment
\* (an empty or absent one leaves them as they were), and the accumulator's
\* argument text after the step is its text before the step followed by the
\* delta's argument fragment; the other accumulators keep their values.
C22_MergeReplacesOrAppends ==
    [][DeltaMerged =>
        LET d == Last(deltas_seen')
            before == AccumulatorAt(assistant_message.tool_calls, d.index)
            after == AccumulatorAt(assistant_message'.tool_calls, d.index)
        IN /\ d.index < Len(assistant_message'.tool_calls)
           /\ after.id = (IF d.id = "" THEN before.id ELSE d.id)
           /\ after.function.name =
                  (IF NameFragment(d) = "" THEN before.function.name ELSE NameFragment(d))
           /\ after.function.arguments = before.function.arguments \o ArgumentFragment(d)
           /\ \A i \in 0..(Len(assistant_message'.tool_calls) - 1) :
                  i # d.index =>
                      AccumulatorAt(assistant_message'.tool_calls, i) =
                          AccumulatorAt(assistant_message.tool_calls, i)
    ]_vars

\* A third delta without id and name has been merged into an accumulator that
\* keeps the id and the name of the first delta and holds the three argument
\* fragments in arrival order
C22_Witness ==
    /\ Len(deltas_seen) = 3
    /\ \A k \in 1..3 : deltas_seen[k].index = 0
    /\ deltas_seen[1].id = "call_a" /\ deltas_seen[1].function.name = "db_schema"
    /\ \A k \in 2..3 : deltas_seen[k].id = "" /\ NameFragment(deltas_seen[k]) = ""
    /\ deltas_seen[1].function.arguments = FragA
    /\ deltas_seen[2].function.arguments = FragB
    /\ deltas_seen[3].function.arguments = FragC
    /\ assistant_message.tool_calls[1] =
           [id |-> "call_a", type |-> "function",
            function |-> [name |-> "db_schema", arguments |-> FragA \o FragB \o FragC]]

----------------------------------------------------------------------------
(* Properties of the order of streaming and dispatch                       *)

NumToolMessages(msgs) == Cardinality({k \in 1..Len(msgs) : msgs[k].role = "tool"})

\* Argument text has been parsed or a tool has been executed in this step
ParsedOrExecuted ==
    \/ last_outcome' # NotCalled
    \/ error' \in {"JSONDecodeError", "tool"}
    \/ NumToolMessages(messages') # NumToolMessages(messages)

\* C23: no step taken while the deltas of a completion are consumed parses
\* argument text or executes a tool; the dispatch starts only in the step that
\* ends the stream and appends the response, and works on the calls of that
\* appended response; a stream that fails ends the turn with the transcript
\* as it was, whatever the deltas received so far carried.
C23_DispatchOnlyAfterStreamEnd ==
    [][ /\ pc = "stream" =>
              /\ ~ParsedOrExecuted
              /\ pc' = "dispatch" =>
                     /\ error' = ""
                     /\ messages' = Append(messages, to_api_message(assistant_message))
                     /\ api_message' = Last(messages')
              /\ error' = "transport" => (pc' = "input" /\ messages' = messages)
        /\ ParsedOrExecuted =>
              /\ pc = "dispatch"
              /\ \E k \in 1..Len(messages) :
                     /\ messages[k] = api_message
                     /\ \A m \in (k + 1)..Len(messages) : messages[m].role = "tool"
      ]_vars

\* The stream of the first completion call has failed after a chunk that
\* carried a complete call: no tool has run and the transcript ends with the
\* user message
C23_Witness ==
    /\ pc = "input"
    /\ error = "transport"
    /\ completions = 1
    /\ nchunks = 1
    /\ assistant_message.tool_calls =
           << [id |-> "call_a", type |-> "function",
               function |-> [name |-> "get_db_schema", arguments |-> DocDbPath]] >>
    /\ last_outcome = NotCalled
    /\ Last(messages).role = "user"
    /\ NumToolMessages(messages) = 0

----------------------------------------------------------------------------
(* Properties of the connections                                           *)

StoreFunctions == {"query_db", "get_db_schema", "get_patient_data"}

\* C24: every call of query_db, get_db_schema and get_patient_data that
\* reaches the store opens one connection of its own, and once the call has
\* returned or failed no connection that a call opened is still open.
C24_ConnectionReleasedAtReturn ==
    /\ tool_request.function \in StoreFunctions => Len(opened) <= 1
    /\ tool_request = NoRequest => ~unclosed

----------------------------------------------------------------------------
(* Properties of a failed completion call                                  *)

\* The completion call fails in this step: at chat.py:127 or while the
\* stream is read
CompletionFails == pc \in {"create", "stream"} /\ error' = "transport"

\* C25: a step in which the completion call fails, before or while its
\* stream is read, leaves the transcript as it was, ending with the user
\* message or the tool-role message it ended with, whatever has been
\* collected from the stream; and every line read afterwards that starts a
\* turn is appended directly after the transcript as it stands.
C25_FailedCompletionAppendsNothing ==
    [][ /\ CompletionFails =>
              /\ messages' = messages
              /\ Last(messages').role \in {"user", "tool"}
              /\ pc' = "input"
        /\ (pc = "input" /\ messages' # messages) =>
              messages' = Append(messages, Message("user", user_input', <<>>, ""))
      ]_vars

\* The stream of the second completion call of a turn has failed after the
\* content "Hi" had been collected: the transcript ends with the tool-role
\* message of the first round
C25_Witness ==
    /\ pc = "input"
    /\ error = "transport"
    /\ completions = 2
    /\ nchunks = 1
    /\ assistant_message = [EmptyAssistantMessage EXCEPT !.content = "Hi"]
    /\ Last(messages).role = "tool"
    /\ \A k \in 1..Len(messages) : messages[k].content # "Hi"

----------------------------------------------------------------------------
(* Properties of execute_tool                                              *)

ExecuteToolCalled == tool_request.function = "execute_tool"

\* The argument texts of the model that are no JSON document
UnparsedTexts == {"", DocTruncated}

\* The text execute_function returns for a failure: of the lookup of the
\* name, or of the function called
DispatcherErrorText ==
    IF tool_request.function_name \notin
           {"query_db", "get_db_schema", "get_patient_data", "compare_dates"}
    THEN "Error: Function " \o tool_request.function_name \o " not found."
    ELSE "Error executing " \o tool_request.function_name \o ": " \o tool_outcome.text

\* C26: execute_tool raises nothing; its envelope has success = false, with
\* an error text, exactly when the argument text is no JSON document, and in
\* that case no function is called; when the document parses and the name is
\* no tool or the function called raises (arguments that do not fit its
\* parameters, a rejected query, a failure of the store), the envelope has
\* success = true and the error text of the dispatcher as its result.
C26_FailureEnvelopeOnlyForUnparsedArguments ==
    ExecuteToolCalled =>
        /\ ~envelope.raised
        /\ envelope.value.success = (tool_request.arguments_json \notin UnparsedTexts)
        /\ ~envelope.value.success =>
               /\ DOMAIN envelope.value = {"success", "error"}
               /\ tool_outcome = NotCalled
               /\ opened = <<>>
        /\ envelope.value.success =>
               /\ DOMAIN envelope.value = {"success", "result"}
               /\ (tool_outcome.kind \in {"raise", "none"})
                      => envelope.value.result = DispatcherErrorText

\* execute_tool("query_db", DocQuery): the query is rejected by query_db and
\* the envelope has success = true with the text of the rejection
C26_Witness ==
    /\ ExecuteToolCalled
    /\ tool_request.function_name = "query_db"
    /\ tool_request.arguments_json = DocQuery
    /\ tool_outcome.kind = "raise"
    /\ envelope.value =
           [success |-> TRUE,
            result |-> "Error executing query_db: Only SELECT queries are allowed. "
                           \o "This is a read-only function."]

----------------------------------------------------------------------------
(* Properties of compare_dates: the order of the inputs                    *)

\* C27: for every two values that parse under the format of the call, also
\* the format with an hour, the difference_days that compare_dates returns
\* is the one it returns for the two values in the other order.
C27_DifferenceDaysSymmetric ==
    (CompareDatesCalled /\ tool_outcome.kind = "return_dict") =>
        LET swapped == compare_dates(tool_request.date2, tool_request.date1,
                                     tool_request.date_format)
        IN /\ swapped.kind = "return_dict"
           /\ tool_outcome.dict.difference_days = swapped.dict.difference_days

============================================================================
